---- MODULE Spec2Model ----
(***************************************************************************)
(* TCS schema compiler: tokenizer, parser, formatter and the compile       *)
(* pipeline.  Text is a sequence of characters; a character is a string    *)
(* atom ("a", ";", "\n", or a code point name such as "U+00A0").  Offsets  *)
(* into a text count characters (0-based, as the code's byte offsets       *)
(* count bytes); byte lengths are computed with Utf8Len where the code     *)
(* takes str::len().                                                       *)
(***************************************************************************)
EXTENDS Integers, Sequences, FiniteSets, TLC

VARIABLES source, script, pc, stages, tokRes, parseRes, error, code, canon, rt,
          cli, arg, ret

vars == <<source, script, pc, stages, tokRes, parseRes, error, code, canon, rt,
          cli, arg, ret>>

(***************************************************************************)
(* Characters and the character classes of the regex crate (Unicode mode)  *)
(***************************************************************************)
NBSP == "U+00A0"
EACUTE == "U+00E9"
ARABIC3 == "U+0663"

AsciiDigit == {"0", "1", "2", "3", "4", "5", "6", "7", "8", "9"}

AsciiAlpha == {"a", "b", "c", "d", "e", "f", "g", "h", "i", "j", "k", "l", "m",
               "n", "o", "p", "q", "r", "s", "t", "u", "v", "w", "x", "y", "z",
               "A", "B", "C", "D", "E", "F", "G", "H", "I", "J", "K", "L", "M",
               "N", "O", "P", "Q", "R", "S", "T", "U", "V", "W", "X", "Y", "Z"}

\* \d : any Unicode decimal digit
Digits == AsciiDigit \cup {ARABIC3}
IsDigit(c) == c \in Digits

\* [A-Za-z_]
IdentStarts == AsciiAlpha \cup {"_"}
IsIdentStart(c) == c \in IdentStarts

\* [A-Za-z0-9_]
IdentConts == AsciiAlpha \cup AsciiDigit \cup {"_"}
IsIdentCont(c) == c \in IdentConts

\* \w as \b sees it: Unicode letters, digits and the underscore
WordChars == AsciiAlpha \cup AsciiDigit \cup {"_", EACUTE, ARABIC3}
IsWordChar(c) == c \in WordChars

\* \s : Unicode White_Space
Spaces == {" ", "\n", "\t", "\r", NBSP}
IsSpace(c) == c \in Spaces

\* bytes of the character's UTF-8 encoding
TwoByteChars == {NBSP, EACUTE, ARABIC3}
Utf8Len(c) == IF c \in TwoByteChars THEN 2 ELSE 1

RECURSIVE ByteLen(_)
\* str::len(): the length of a text in bytes
ByteLen(s) == IF s = <<>> THEN 0 ELSE Utf8Len(Head(s)) + ByteLen(Tail(s))

RECURSIVE CountNewlines(_)
\* part.matches('\n').count()
CountNewlines(s) ==
  IF s = <<>> THEN 0
  ELSE (IF Head(s) = "\n" THEN 1 ELSE 0) + CountNewlines(Tail(s))

RECURSIVE LastLinePart(_)
\* part.split('\n').last(): the text after the last newline
LastLinePart(s) ==
  IF s = <<>> \/ s[Len(s)] = "\n" THEN <<>>
  ELSE Append(LastLinePart(SubSeq(s, 1, Len(s) - 1)), s[Len(s)])

(***************************************************************************)
(* TOKEN_REGEX, one operator per alternative.  Each returns the end offset *)
(* of the match that starts at offset i, or NoMatch.                       *)
(***************************************************************************)
NoMatch == 0 - 1

\* \b at offset i of text
WordBoundary(text, i) ==
  (i > 0 /\ IsWordChar(text[i])) # (i < Len(text) /\ IsWordChar(text[i + 1]))

RECURSIVE DigitRunEnd(_, _)
\* end of the longest run of \d starting at offset i
DigitRunEnd(text, i) ==
  IF i < Len(text) /\ IsDigit(text[i + 1]) THEN DigitRunEnd(text, i + 1) ELSE i

RECURSIVE IdentRunEnd(_, _)
IdentRunEnd(text, i) ==
  IF i < Len(text) /\ IsIdentCont(text[i + 1]) THEN IdentRunEnd(text, i + 1) ELSE i

RECURSIVE SpaceRunEnd(_, _)
SpaceRunEnd(text, i) ==
  IF i < Len(text) /\ IsSpace(text[i + 1]) THEN SpaceRunEnd(text, i + 1) ELSE i

RECURSIVE LineEnd(_, _)
\* .* : up to, not including, the next newline
LineEnd(text, i) ==
  IF i < Len(text) /\ text[i + 1] # "\n" THEN LineEnd(text, i + 1) ELSE i

DeprecatedText == <<"[", "d", "e", "p", "r", "e", "c", "a", "t", "e", "d", "]">>

\* (?:-|\b)\d+\b
MatchInteger(text, i) ==
  LET minus == text[i + 1] = "-"
      s == IF minus THEN i + 1 ELSE i
      e == DigitRunEnd(text, s)
  IN IF (minus \/ WordBoundary(text, i)) /\ e > s /\ WordBoundary(text, e)
     THEN e ELSE NoMatch

\* [=;{}]
Puncts == {"=", ";", "{", "}"}
MatchPunct(text, i) ==
  IF text[i + 1] \in Puncts THEN i + 1 ELSE NoMatch

\* \[\d+\]
MatchFixedArray(text, i) ==
  LET e == DigitRunEnd(text, i + 1)
  IN IF text[i + 1] = "[" /\ e > i + 1 /\ e < Len(text) /\ text[e + 1] = "]"
     THEN e + 1 ELSE NoMatch

\* \[\]
MatchArray(text, i) ==
  IF text[i + 1] = "[" /\ i + 1 < Len(text) /\ text[i + 2] = "]"
  THEN i + 2 ELSE NoMatch

\* \[deprecated\]
MatchDeprecated(text, i) ==
  IF i + 12 <= Len(text) /\ SubSeq(text, i + 1, i + 12) = DeprecatedText
  THEN i + 12 ELSE NoMatch

\* \b[A-Za-z_][A-Za-z0-9_]*\b
MatchIdentifier(text, i) ==
  LET e == IdentRunEnd(text, i + 1)
  IN IF IsIdentStart(text[i + 1]) /\ WordBoundary(text, i) /\ WordBoundary(text, e)
     THEN e ELSE NoMatch

\* //.*
MatchComment(text, i) ==
  IF text[i + 1] = "/" /\ i + 1 < Len(text) /\ text[i + 2] = "/"
  THEN LineEnd(text, i + 2) ELSE NoMatch

\* \s+
MatchSpace(text, i) ==
  IF IsSpace(text[i + 1]) THEN SpaceRunEnd(text, i + 1) ELSE NoMatch

\* the alternation, leftmost alternative first; i < Len(text)
MatchAt(text, i) ==
  LET m1 == MatchInteger(text, i)
      m2 == MatchPunct(text, i)
      m3 == MatchFixedArray(text, i)
      m4 == MatchArray(text, i)
      m5 == MatchDeprecated(text, i)
      m6 == MatchIdentifier(text, i)
      m7 == MatchComment(text, i)
  IN IF m1 # NoMatch THEN m1
     ELSE IF m2 # NoMatch THEN m2
     ELSE IF m3 # NoMatch THEN m3
     ELSE IF m4 # NoMatch THEN m4
     ELSE IF m5 # NoMatch THEN m5
     ELSE IF m6 # NoMatch THEN m6
     ELSE IF m7 # NoMatch THEN m7
     ELSE MatchSpace(text, i)

RECURSIVE FindIter(_, _)
\* TOKEN_REGEX.find_iter(text) from offset p on: the successive leftmost
\* matches, each search starting where the previous match ended
FindIter(text, p) ==
  IF p >= Len(text) THEN <<>>
  ELSE LET e == MatchAt(text, p)
       IN IF e = NoMatch THEN FindIter(text, p + 1)
          ELSE <<[start |-> p, end |-> e]>> \o FindIter(text, e)

(***************************************************************************)
(* Errors (TcsError) and tokens                                            *)
(***************************************************************************)
NoError == [variant |-> "None", msg |-> "", found |-> <<>>, line |-> 0, column |-> 0]

\* utils::error: a TcsError::ParseError
ParseError(msg, found, line, column) ==
  [variant |-> "ParseError", msg |-> msg, found |-> found,
   line |-> line, column |-> column]

Token(text, line, column) == [text |-> text, line |-> line, column |-> column]

\* WHITESPACE_RX: ^(//.*|\s+)$
IsWhitespaceRx(part) ==
  \/ /\ Len(part) >= 2 /\ part[1] = "/" /\ part[2] = "/"
     /\ \A i \in 1..Len(part) : part[i] # "\n"
  \/ /\ part # <<>>
     /\ \A i \in 1..Len(part) : IsSpace(part[i])

StartsWithSlashes(part) == Len(part) >= 2 /\ part[1] = "/" /\ part[2] = "/"

\* the line after a match (tokenizer.rs 65-67)
LineAfter(part, line) == line + CountNewlines(part)

\* the column after a match (tokenizer.rs 66-73)
ColumnAfter(part, column) ==
  IF CountNewlines(part) > 0
  THEN ByteLen(LastLinePart(part)) + 1
  ELSE column + ByteLen(part)

\* a tokenizer that keeps only comments out of the tokens
IsTokenPartNotComment(part) == ~StartsWithSlashes(part)

\* tokenizer.rs 56: the match is pushed as a token
IsTokenPart(part) == ~IsWhitespaceRx(part) /\ ~StartsWithSlashes(part)

\* a tokenizer that skips the text no match covers
IsGapIgnored(start, lastEnd) == FALSE

\* tokenizer.rs 46: text lies between the previous match and this one
IsGap(start, lastEnd) == start > lastEnd

\* tokenizer.rs 78: text is left after the last match
IsTrailingGap(text, lastEnd) == lastEnd # Len(text)

\* a tokenizer that forgets the EOF token
AppendEofMissing(toks, line, column) == toks

\* tokenizer.rs 87-92: the EOF token is appended
AppendEof(toks, line, column) == Append(toks, Token(<<>>, line, column))

RECURSIVE TokenizeLoop(_, _, _, _, _, _, _)
\* the for loop over the matches and the code after it; k indexes matches
TokenizeLoop(text, matches, k, toks, line, column, lastEnd) ==
  IF k > Len(matches)
  THEN IF IsTrailingGap(text, lastEnd)
       THEN [ok |-> FALSE, tokens |-> <<>>,
             err |-> ParseError("Syntax error", SubSeq(text, lastEnd + 1, Len(text)),
                                line, column)]
       ELSE [ok |-> TRUE, tokens |-> AppendEof(toks, line, column), err |-> NoError]
  ELSE LET m == matches[k]
           part == SubSeq(text, m.start + 1, m.end)
           pushed == IF IsTokenPart(part)
                     THEN Append(toks, Token(part, line, column))
                     ELSE toks
           nextLine == LineAfter(part, line)
           nextColumn == ColumnAfter(part, column)
       IN IF IsGap(m.start, lastEnd)
          THEN [ok |-> FALSE, tokens |-> <<>>,
                err |-> ParseError("Syntax error", SubSeq(text, lastEnd + 1, m.start),
                                   line, column)]
          ELSE TokenizeLoop(text, matches, k + 1, pushed, nextLine, nextColumn, m.end)

\* tokenize_schema
TokenizeSchema(text) == TokenizeLoop(text, FindIter(text, 0), 1, <<>>, 1, 1, 0)

(***************************************************************************)
(* Schema AST (schema/src/types.rs)                                        *)
(***************************************************************************)
Some(v) == [some |-> TRUE, val |-> v]

\* Option::None of a String or of a usize (a usize is kept as its decimal
\* digits, which is what parsing reads and formatting writes)
None == [some |-> FALSE, val |-> <<>>]

Field(name, line, column, type_, is_array, array_size, is_deprecated, field_id) ==
  [name |-> name, line |-> line, column |-> column, type_ |-> type_,
   is_array |-> is_array, array_size |-> array_size,
   is_deprecated |-> is_deprecated, field_id |-> field_id]

Definition(name, line, column, kind, fields) ==
  [name |-> name, line |-> line, column |-> column, kind |-> kind, fields |-> fields]

Schema(package, definitions) == [package |-> package, definitions |-> definitions]

\* Schema::new
EmptySchema == Schema(None, <<>>)

(***************************************************************************)
(* Integer conversions: str::parse::<i32>, str::parse::<usize>, Display    *)
(***************************************************************************)
MaxI32 == 2147483647
MinI32 == (0 - MaxI32) - 1

DigitVal(c) ==
  CASE c = "0" -> 0 [] c = "1" -> 1 [] c = "2" -> 2 [] c = "3" -> 3 [] c = "4" -> 4
    [] c = "5" -> 5 [] c = "6" -> 6 [] c = "7" -> 7 [] c = "8" -> 8 [] c = "9" -> 9

DigitChar(d) == <<"0", "1", "2", "3", "4", "5", "6", "7", "8", "9">>[d + 1]

NoInt == [ok |-> FALSE, val |-> 0]

RECURSIVE AccumulateI32(_, _, _)
\* checked_mul(10) then checked_add / checked_sub of each digit
AccumulateI32(digits, acc, negative) ==
  IF digits = <<>> THEN [ok |-> TRUE, val |-> acc]
  ELSE IF Head(digits) \notin AsciiDigit THEN NoInt
  ELSE LET d == DigitVal(Head(digits))
       IN IF negative
          THEN IF acc < (MinI32 + d + 9) \div 10 THEN NoInt
               ELSE AccumulateI32(Tail(digits), (acc * 10) - d, negative)
          ELSE IF acc > (MaxI32 - d) \div 10 THEN NoInt
               ELSE AccumulateI32(Tail(digits), (acc * 10) + d, negative)

\* a conversion that gives 0 for what is no i32
ParseI32Lenient(text) ==
  LET digits == IF text # <<>> /\ Head(text) \in {"-", "+"} THEN Tail(text) ELSE text
      negative == text # <<>> /\ Head(text) = "-"
  IN IF digits = <<>> THEN [ok |-> TRUE, val |-> 0]
     ELSE [ok |-> TRUE, val |-> AccumulateI32(digits, 0, negative).val]

\* text.parse::<i32>()
ParseI32(text) ==
  IF text = <<>> THEN NoInt
  ELSE IF Head(text) \in {"-", "+"}
       THEN IF Tail(text) = <<>> THEN NoInt
            ELSE AccumulateI32(Tail(text), 0, Head(text) = "-")
       ELSE AccumulateI32(text, 0, FALSE)

RECURSIVE NatDigits(_)
NatDigits(n) ==
  IF n < 10 THEN <<DigitChar(n)>>
  ELSE Append(NatDigits(n \div 10), DigitChar(n % 10))

\* format!("{}", n) of an i32
FormatI32(n) ==
  IF n >= 0 THEN NatDigits(n)
  ELSE LET m == 0 - (n + 1)
           d == ((m % 10) + 1) % 10
           q == (m \div 10) + (IF (m % 10) = 9 THEN 1 ELSE 0)
       IN <<"-">> \o (IF q = 0 THEN <<>> ELSE NatDigits(q)) \o <<DigitChar(d)>>

\* usize::MAX of a 64-bit target, in decimal
UsizeMaxDigits == <<"1", "8", "4", "4", "6", "7", "4", "4", "0", "7",
                    "3", "7", "0", "9", "5", "5", "1", "6", "1", "5">>

RECURSIVE StripZeros(_)
StripZeros(digits) ==
  IF Len(digits) > 1 /\ Head(digits) = "0" THEN StripZeros(Tail(digits)) ELSE digits

RECURSIVE DigitsLess(_, _)
\* a < b for two digit sequences of the same length
DigitsLess(a, b) ==
  IF a = <<>> THEN FALSE
  ELSE IF Head(a) # Head(b) THEN DigitVal(Head(a)) < DigitVal(Head(b))
  ELSE DigitsLess(Tail(a), Tail(b))

\* size_str.parse::<usize>(): the value as canonical decimal digits
ParseUsize(text) ==
  LET digits == IF text # <<>> /\ Head(text) = "+" THEN Tail(text) ELSE text
      value == StripZeros(digits)
  IN IF digits = <<>> \/ \E i \in 1..Len(digits) : digits[i] \notin AsciiDigit
     THEN [ok |-> FALSE, val |-> <<>>]
     ELSE IF Len(value) > Len(UsizeMaxDigits)
             \/ (Len(value) = Len(UsizeMaxDigits) /\ DigitsLess(UsizeMaxDigits, value))
     THEN [ok |-> FALSE, val |-> <<>>]
     ELSE [ok |-> TRUE, val |-> value]

\* format!("{}", size) of a usize: a usize is held as the decimal digits of
\* its value, without leading zeros (ParseUsize), and those are written
FormatUsize(size) == size

(***************************************************************************)
(* Parser (tcs-compiler/src/parser.rs).  The regexes are tests on a        *)
(* token's text; index is 0-based as in the code.                          *)
(***************************************************************************)
\* IDENTIFIER: ^[A-Za-z_][A-Za-z0-9_]*$
IsIdentifierTok(t) ==
  /\ t # <<>>
  /\ IsIdentStart(t[1])
  /\ \A i \in 2..Len(t) : IsIdentCont(t[i])

\* INTEGER: ^-?\d+$
IsIntegerTok(t) ==
  LET d == IF t # <<>> /\ t[1] = "-" THEN Tail(t) ELSE t
  IN d # <<>> /\ \A i \in 1..Len(d) : IsDigit(d[i])

\* FIXED_ARRAY_TOKEN: ^\[(\d+)\]$
IsFixedArrayTok(t) ==
  /\ Len(t) >= 3
  /\ t[1] = "[" /\ t[Len(t)] = "]"
  /\ \A i \in 2..(Len(t) - 1) : IsDigit(t[i])

IsEqualsTok(t) == t = <<"=">>
IsSemicolonTok(t) == t = <<";">>
IsLeftBraceTok(t) == t = <<"{">>
\* a parser for which the end of the input closes a definition
IsRightBraceOrEofTok(t) == t = <<"}">> \/ t = <<>>
\* RIGHT_BRACE: ^\}$
IsRightBraceTok(t) == t = <<"}">>
IsArrayTok(t) == t = <<"[", "]">>
IsEnumTok(t) == t = <<"e", "n", "u", "m">>
IsStructTok(t) == t = <<"s", "t", "r", "u", "c", "t">>
IsMessageTok(t) == t = <<"m", "e", "s", "s", "a", "g", "e">>
IsPackageTok(t) == t = <<"p", "a", "c", "k", "a", "g", "e">>
IsDeprecatedTok(t) == t = DeprecatedText
IsEofTok(t) == t = <<>>

\* test.is_match(text), the regex being given by its name
IsMatch(test, t) ==
  CASE test = "IDENTIFIER" -> IsIdentifierTok(t)
    [] test = "EQUALS" -> IsEqualsTok(t)
    [] test = "SEMICOLON" -> IsSemicolonTok(t)
    [] test = "INTEGER" -> IsIntegerTok(t)
    [] test = "LEFT_BRACE" -> IsLeftBraceTok(t)
    [] test = "RIGHT_BRACE" -> IsRightBraceTok(t)
    [] test = "ARRAY_TOKEN" -> IsArrayTok(t)
    [] test = "PACKAGE_KEYWORD" -> IsPackageTok(t)
    [] test = "DEPRECATED_TOKEN" -> IsDeprecatedTok(t)
    [] test = "EOF" -> IsEofTok(t)

\* the parser's position and how it got there: "ok", "err" (a returned
\* Err) or "panic" (current_token's expect on a missing token)
PState(index) == [index |-> index, status |-> "ok", err |-> NoError]

PFail(ps, err) == [ps EXCEPT !.status = "err", !.err = err]

\* current_token
CurrentToken(tokens, index) == tokens[index + 1]

\* eat: the position after it; a failed state passes through unchanged
Eat(tokens, ps, test) ==
  IF ps.status # "ok" THEN ps
  ELSE IF ps.index >= Len(tokens) THEN [ps EXCEPT !.status = "panic"]
  ELSE IF IsMatch(test, CurrentToken(tokens, ps.index).text)
       THEN [ps EXCEPT !.index = @ + 1]
       ELSE ps

\* eat returned true between ps and its result e
Ate(ps, e) == e.status = "ok" /\ e.index = ps.index + 1

\* expect
Expect(tokens, ps, test, msg) ==
  LET e == Eat(tokens, ps, test)
  IN IF ps.status # "ok" \/ e.status # "ok" \/ Ate(ps, e) THEN e
     ELSE LET tok == CurrentToken(tokens, ps.index)
          IN PFail(ps, ParseError(msg, tok.text, tok.line, tok.column))

\* unexpected_token
UnexpectedToken(tokens, ps) ==
  LET tok == CurrentToken(tokens, ps.index)
  IN PFail(ps, ParseError("Unexpected token", tok.text, tok.line, tok.column))

\* a parser that numbers struct fields from 0
StructFieldIdFromZero(fields) == Len(fields)

\* the value of a struct field: fields.len() as i32 + 1
StructFieldId(fields) == Len(fields) + 1

\* a parser that reads "= INTEGER" in every kind of definition
HasExplicitValueAlways(kind) == TRUE

\* a parser that reads "= INTEGER" in enums only
HasExplicitValueInEnum(kind) == kind = "Enum"

\* kind != DefinitionKind::Struct: the field carries "= INTEGER"
HasExplicitValue(kind) == kind # "Struct"

\* a parser that reads a type in every kind of definition
HasTypeAlways(kind) == TRUE

\* kind != DefinitionKind::Enum: the field starts with a type
HasType(kind) == kind # "Enum"

\* a parser that accepts [deprecated] in every kind
MayDeprecateAny(kind) == TRUE

\* a parser that refuses [deprecated] in structs only
MayDeprecateButStruct(kind) == kind # "Struct"

\* the kinds in which [deprecated] is accepted
MayDeprecate(kind) == kind = "Message"

\* a parser that reports the token after the marker
DeprecatedIndexAfter(index) == index

\* parser.rs 159: the [deprecated] token is the one just eaten
DeprecatedIndex(index) == index - 1

NoField == Field(<<>>, 0, 0, None, FALSE, None, FALSE, 0)

\* the locals of one iteration of the field loop (parser.rs 104-107), with
\* the position ps, the name token and the value
FieldState(ps) ==
  [ps |-> ps, type_ |-> None, is_array |-> FALSE, array_size |-> None,
   is_deprecated |-> FALSE, f_tok |-> Token(<<>>, 0, 0), value |-> 0]

\* parser.rs 109-112, 132: the type token
FieldType(tokens, kind, st) ==
  IF ~HasType(kind) THEN st
  ELSE LET p1 == Expect(tokens, st.ps, "IDENTIFIER", "Expected identifier")
       IN IF p1.status # "ok" THEN [st EXCEPT !.ps = p1]
          ELSE [st EXCEPT !.ps = p1,
                          !.type_ = Some(CurrentToken(tokens, st.ps.index).text)]

\* parser.rs 114-131: the array notation after the type
FieldArray(tokens, kind, st) ==
  IF ~HasType(kind) \/ st.ps.status # "ok" THEN st
  ELSE LET p2 == Eat(tokens, st.ps, "ARRAY_TOKEN")
           next_tok == CurrentToken(tokens, st.ps.index)
           size_str == SubSeq(next_tok.text, 2, Len(next_tok.text) - 1)
           size == ParseUsize(size_str)
       IN IF p2.status # "ok" THEN [st EXCEPT !.ps = p2]
          ELSE IF Ate(st.ps, p2) THEN [st EXCEPT !.ps = p2, !.is_array = TRUE]
          ELSE IF ~IsFixedArrayTok(next_tok.text) THEN st
          ELSE IF ~size.ok
          THEN [st EXCEPT !.ps = PFail(st.ps, ParseError("Invalid array size", size_str,
                                                         next_tok.line, next_tok.column))]
          ELSE [st EXCEPT !.ps = [st.ps EXCEPT !.index = @ + 1],
                          !.is_array = TRUE,
                          !.array_size = Some(size.val)]

\* parser.rs 135-137: the field name
FieldName(tokens, st) ==
  LET p4 == Expect(tokens, st.ps, "IDENTIFIER", "Expected identifier")
  IN IF p4.status # "ok" THEN [st EXCEPT !.ps = p4]
     ELSE [st EXCEPT !.ps = p4, !.f_tok = CurrentToken(tokens, st.ps.index)]

\* parser.rs 139-154: the value, written or derived from the position
FieldValue(tokens, kind, fields, st) ==
  IF ~HasExplicitValue(kind) THEN [st EXCEPT !.value = StructFieldId(fields)]
  ELSE LET p5 == Expect(tokens, st.ps, "EQUALS", "Expected \"=\"")
           p6 == Expect(tokens, p5, "INTEGER", "Expected integer")
       IN IF p6.status # "ok" THEN [st EXCEPT !.ps = p6]
          ELSE LET v_tok == CurrentToken(tokens, p5.index)
                   parsed == ParseI32(v_tok.text)
               IN IF ~parsed.ok
                  THEN [st EXCEPT !.ps = PFail(p6, ParseError("Invalid integer", v_tok.text,
                                                              v_tok.line, v_tok.column))]
                  ELSE [st EXCEPT !.ps = p6, !.value = parsed.val]

\* parser.rs 156-167: the deprecation marker
FieldDeprecated(tokens, kind, st) ==
  LET p8 == Eat(tokens, st.ps, "DEPRECATED_TOKEN")
  IN IF ~Ate(st.ps, p8) THEN [st EXCEPT !.ps = p8]
     ELSE IF ~MayDeprecate(kind)
     THEN LET deprecated == CurrentToken(tokens, DeprecatedIndex(p8.index))
          IN [st EXCEPT !.ps = PFail(p8, ParseError("Cannot deprecate this field", <<>>,
                                                    deprecated.line, deprecated.column))]
     ELSE [st EXCEPT !.ps = p8, !.is_deprecated = TRUE]

\* parser.rs 169-186: the semicolon, and the field that is pushed
FieldEnd(tokens, kind, fields, st) ==
  LET p10 == Expect(tokens, st.ps, "SEMICOLON", "Expected \";\"")
      final_value == IF HasExplicitValue(kind) THEN st.value ELSE StructFieldId(fields)
  IN [ps |-> p10,
      field |-> IF p10.status = "ok"
                THEN Field(st.f_tok.text, st.f_tok.line, st.f_tok.column,
                           st.type_, st.is_array, st.array_size,
                           st.is_deprecated, final_value)
                ELSE NoField]

\* one iteration of the field loop (parser.rs 104-186)
ParseField(tokens, p0, kind, fields) ==
  LET s1 == FieldType(tokens, kind, FieldState(p0))
      s2 == FieldArray(tokens, kind, s1)
      s3 == FieldName(tokens, s2)
      s4 == FieldValue(tokens, kind, fields, s3)
      s5 == FieldDeprecated(tokens, kind, s4)
  IN FieldEnd(tokens, kind, fields, s5)

RECURSIVE ParseFields(_, _, _, _)
RECURSIVE FieldParsed(_, _, _, _)
\* fields.push(..) after an iteration that returned no error, and the
\* next iteration
FieldParsed(tokens, kind, fields, parsed) ==
  LET f == parsed
  IN IF f.ps.status # "ok" THEN [ps |-> f.ps, fields |-> fields]
     ELSE ParseFields(tokens, f.ps, kind, Append(fields, f.field))

\* while !eat(RIGHT_BRACE) { ... fields.push(..) }
ParseFields(tokens, ps, kind, fields) ==
  LET e == Eat(tokens, ps, "RIGHT_BRACE")
  IN IF e.status # "ok" \/ Ate(ps, e) THEN [ps |-> e, fields |-> fields]
     ELSE FieldParsed(tokens, kind, fields, ParseField(tokens, ps, kind, fields))

\* the keyword chain at the head of a definition (parser.rs 86-94)
KindOf(t) ==
  CASE IsEnumTok(t) -> "Enum"
    [] IsStructTok(t) -> "Struct"
    [] IsMessageTok(t) -> "Message"
    [] OTHER -> "none"

RECURSIVE ParseDefinitions(_, _, _)
RECURSIVE DefinitionParsed(_, _, _, _, _)
\* definitions.push(..) after the field loop (parser.rs 189-195), and the
\* next iteration; p1 is the position of the name
DefinitionParsed(tokens, p1, kind, defs, parsed) ==
  LET fr == parsed
      name_tok == CurrentToken(tokens, p1.index)
  IN IF fr.ps.status # "ok" THEN [ps |-> fr.ps, defs |-> defs]
     ELSE ParseDefinitions(tokens, fr.ps,
            Append(defs, Definition(name_tok.text, name_tok.line, name_tok.column,
                                    kind, fr.fields)))

\* the name, the brace and the fields of a definition (parser.rs 96-187)
ParseDefinition(tokens, p1, kind, defs) ==
  LET p2 == Expect(tokens, p1, "IDENTIFIER", "Expected identifier")
      p3 == Expect(tokens, p2, "LEFT_BRACE", "Expected \"{\"")
  IN DefinitionParsed(tokens, p1, kind, defs, ParseFields(tokens, p3, kind, <<>>))

\* while index < tokens.len() && !eat(EOF) { ... definitions.push(..) }
ParseDefinitions(tokens, ps, defs) ==
  IF ps.index >= Len(tokens) THEN [ps |-> ps, defs |-> defs]
  ELSE LET e == Eat(tokens, ps, "EOF")
       IN IF Ate(ps, e) THEN [ps |-> e, defs |-> defs]
          ELSE LET kind == KindOf(CurrentToken(tokens, ps.index).text)
               IN IF kind = "none"
                  THEN [ps |-> UnexpectedToken(tokens, ps), defs |-> defs]
                  ELSE ParseDefinition(tokens, [ps EXCEPT !.index = @ + 1], kind, defs)

\* the package declaration (parser.rs 73-82): the position after it and
\* the package
ParsePackage(tokens) ==
  LET p0 == PState(0)
      e == Eat(tokens, p0, "PACKAGE_KEYWORD")
  IN IF ~Ate(p0, e) THEN [ps |-> e, package |-> None]
     ELSE IF e.index >= Len(tokens)
     THEN [ps |-> PFail(e, ParseError("Expected identifier after package", <<>>, 0, 0)),
           package |-> None]
     ELSE LET pkgTok == CurrentToken(tokens, e.index)
              p1 == Expect(tokens, e, "IDENTIFIER", "Expected identifier")
              p2 == Expect(tokens, p1, "SEMICOLON", "Expected \";\"")
          IN [ps |-> p2,
              package |-> IF p2.status = "ok" THEN Some(pkgTok.text) ELSE None]

\* what parse_schema returns once the definition loop has ended
\* (parser.rs 198-201, or the error that ended it)
SchemaParsed(package, parsed) ==
  LET dr == parsed
  IN [ok |-> dr.ps.status = "ok",
      panic |-> dr.ps.status = "panic",
      schema |-> IF dr.ps.status = "ok" THEN Schema(package, dr.defs) ELSE EmptySchema,
      err |-> dr.ps.err]

\* the definition loop after the package declaration
PackageParsed(tokens, parsed) ==
  LET pk == parsed
  IN IF pk.ps.status = "ok"
     THEN SchemaParsed(pk.package, ParseDefinitions(tokens, pk.ps, <<>>))
     ELSE SchemaParsed(None, [ps |-> pk.ps, defs |-> <<>>])

\* parse_schema: Ok(schema), Err(err) or a panic
ParseSchema(tokens) == PackageParsed(tokens, ParsePackage(tokens))

(***************************************************************************)
(* Formatter (compiler/src/formatter.rs)                                   *)
(***************************************************************************)
RECURSIVE Concat(_)
\* the texts of a sequence, joined
Concat(parts) == IF parts = <<>> THEN <<>> ELSE Head(parts) \o Concat(Tail(parts))

\* a formatter that writes a fixed array without its size
FormatTypedFieldUnsized(field) ==
  IF field.type_.some
  THEN field.type_.val
       \o (IF field.is_array THEN <<"[", "]">> ELSE <<>>)
       \o <<" ">> \o field.name
  ELSE <<>>

\* format_typed_field
FormatTypedField(field) ==
  IF field.type_.some
  THEN field.type_.val
       \o (IF field.is_array
           THEN IF field.array_size.some
                THEN <<"[">> \o FormatUsize(field.array_size.val) \o <<"]">>
                ELSE <<"[", "]">>
           ELSE <<>>)
       \o <<" ">> \o field.name
  ELSE <<>>

\* a formatter that writes every field the way a struct field is written
FormatFieldAsStruct(field, kind) ==
  <<" ", " ">> \o FormatTypedField(field) \o <<";", "\n">>

\* a formatter that writes the deprecation marker of a struct field
FormatFieldMarkerInStruct(field, kind) ==
  <<" ", " ">> \o
  (CASE kind = "Enum" ->
          field.name \o <<" ", "=", " ">> \o FormatI32(field.field_id) \o <<";", "\n">>
     [] kind = "Struct" ->
          FormatTypedField(field)
          \o (IF field.is_deprecated THEN <<" ">> \o DeprecatedText ELSE <<>>)
          \o <<";", "\n">>
     [] kind = "Message" ->
          FormatTypedField(field) \o <<" ", "=", " ">> \o FormatI32(field.field_id)
          \o (IF field.is_deprecated THEN <<" ">> \o DeprecatedText ELSE <<>>)
          \o <<";", "\n">>)

\* format_field
FormatField(field, kind) ==
  <<" ", " ">> \o
  (CASE kind = "Enum" ->
          field.name \o <<" ", "=", " ">> \o FormatI32(field.field_id) \o <<";", "\n">>
     [] kind = "Struct" ->
          FormatTypedField(field) \o <<";", "\n">>
     [] kind = "Message" ->
          FormatTypedField(field) \o <<" ", "=", " ">> \o FormatI32(field.field_id)
          \o (IF field.is_deprecated THEN <<" ">> \o DeprecatedText ELSE <<>>)
          \o <<";", "\n">>)

\* the keyword of a definition kind
Keyword(kind) ==
  CASE kind = "Enum" -> <<"e", "n", "u", "m">>
    [] kind = "Struct" -> <<"s", "t", "r", "u", "c", "t">>
    [] kind = "Message" -> <<"m", "e", "s", "s", "a", "g", "e">>

\* a formatter that ends every definition with a blank line
FormatDefinitionTrailingBlank(def) ==
  Keyword(def.kind) \o <<" ">> \o def.name \o <<" ", "{", "\n">>
  \o Concat([i \in 1..Len(def.fields) |-> FormatField(def.fields[i], def.kind)])
  \o <<"}", "\n", "\n">>

\* format_definition
FormatDefinition(def) ==
  Keyword(def.kind) \o <<" ">> \o def.name \o <<" ", "{", "\n">>
  \o Concat([i \in 1..Len(def.fields) |-> FormatField(def.fields[i], def.kind)])
  \o <<"}", "\n">>

\* a formatter that writes no blank line after the package line
FormatSchemaNoBlank(schema) ==
  (IF schema.package.some
   THEN <<"p", "a", "c", "k", "a", "g", "e", " ">> \o schema.package.val \o <<";", "\n">>
   ELSE <<>>)
  \o Concat([i \in 1..Len(schema.definitions) |->
               (IF i > 1 THEN <<"\n">> ELSE <<>>) \o FormatDefinition(schema.definitions[i])])

\* format_schema
FormatSchema(schema) ==
  (IF schema.package.some
   THEN <<"p", "a", "c", "k", "a", "g", "e", " ">> \o schema.package.val \o <<";", "\n">>
        \o (IF schema.definitions # <<>> THEN <<"\n">> ELSE <<>>)
   ELSE <<>>)
  \o Concat([i \in 1..Len(schema.definitions) |->
               (IF i > 1 THEN <<"\n">> ELSE <<>>) \o FormatDefinition(schema.definitions[i])])

(***************************************************************************)
(* Verifier and code generator.  tcs-compiler/src/verifier.rs and          *)
(* gen_rust.rs are declared in lib.rs but their text is not part of the    *)
(* sources at hand; they are modelled from the design document (4.3, 4.4). *)
(***************************************************************************)
W_byte == <<"b", "y", "t", "e">>
W_bool == <<"b", "o", "o", "l">>
W_string == <<"s", "t", "r", "i", "n", "g">>
W_uint == <<"u", "i", "n", "t">>
W_int == <<"i", "n", "t">>
W_float == <<"f", "l", "o", "a", "t">>

\* the builtin scalar type names
Builtins ==
  {W_byte, W_bool, W_string}
  \cup {W_uint \o w : w \in {<<"8">>, <<"1", "6">>, <<"3", "2">>, <<"6", "4">>}}
  \cup {W_int \o w : w \in {<<"8">>, <<"1", "6">>, <<"3", "2">>, <<"6", "4">>}}
  \cup {W_float \o w : w \in {<<"3", "2">>, <<"6", "4">>}}

VerificationError(msg) ==
  [variant |-> "VerificationError", msg |-> msg, found |-> <<>>, line |-> 0, column |-> 0]

DefinitionNames(schema) ==
  {schema.definitions[i].name : i \in 1..Len(schema.definitions)}

\* (a) definition names are unique
DuplicateDefinition(schema) ==
  \E i, j \in 1..Len(schema.definitions) :
    i < j /\ schema.definitions[i].name = schema.definitions[j].name

\* (b) field names are unique within their definition
DuplicateFieldName(schema) ==
  \E d \in 1..Len(schema.definitions) :
    \E i, j \in 1..Len(schema.definitions[d].fields) :
      i < j /\ schema.definitions[d].fields[i].name = schema.definitions[d].fields[j].name

\* (c) a non-enum field's type is a builtin scalar or a definition's name
UndefinedType(schema) ==
  \E d \in 1..Len(schema.definitions) :
    /\ schema.definitions[d].kind # "Enum"
    /\ \E i \in 1..Len(schema.definitions[d].fields) :
         LET f == schema.definitions[d].fields[i]
         IN f.type_.some /\ f.type_.val \notin Builtins \cup DefinitionNames(schema)

\* a verifier that looks for a repeated id in the whole schema
DuplicateFieldIdAnywhere(schema) ==
  \E d, e \in 1..Len(schema.definitions) :
    /\ schema.definitions[d].kind \in {"Enum", "Message"}
    /\ schema.definitions[e].kind \in {"Enum", "Message"}
    /\ \E i \in 1..Len(schema.definitions[d].fields) :
         \E j \in 1..Len(schema.definitions[e].fields) :
           /\ (d < e \/ (d = e /\ i < j))
           /\ schema.definitions[d].fields[i].field_id = schema.definitions[e].fields[j].field_id

\* (d) field ids are unique within an enum or a message
DuplicateFieldId(schema) ==
  \E d \in 1..Len(schema.definitions) :
    /\ schema.definitions[d].kind \in {"Enum", "Message"}
    /\ \E i, j \in 1..Len(schema.definitions[d].fields) :
         /\ i < j
         /\ schema.definitions[d].fields[i].field_id = schema.definitions[d].fields[j].field_id

\* (e) a fixed array's size is positive
ZeroArraySize(schema) ==
  \E d \in 1..Len(schema.definitions) :
    \E i \in 1..Len(schema.definitions[d].fields) :
      LET f == schema.definitions[d].fields[i]
      IN f.array_size.some /\ f.array_size.val = <<"0">>

\* verify_schema: Ok(()) or the first violation
VerifySchema(schema) ==
  CASE DuplicateDefinition(schema) ->
         [ok |-> FALSE, err |-> VerificationError("duplicate definition")]
    [] DuplicateFieldName(schema) ->
         [ok |-> FALSE, err |-> VerificationError("duplicate field")]
    [] UndefinedType(schema) ->
         [ok |-> FALSE, err |-> VerificationError("undefined type")]
    [] DuplicateFieldId(schema) ->
         [ok |-> FALSE, err |-> VerificationError("duplicate field id")]
    [] ZeroArraySize(schema) ->
         [ok |-> FALSE, err |-> VerificationError("array size")]
    [] OTHER -> [ok |-> TRUE, err |-> NoError]

\* a generator that leaves deprecated fields out of the Option wrapper
MemberLiveOptional(field, kind) ==
  [name |-> field.name,
   elem |-> IF field.type_.some THEN field.type_.val ELSE <<>>,
   shape |-> IF field.array_size.some THEN "fixed"
             ELSE IF field.is_array THEN "vec" ELSE "scalar",
   size |-> field.array_size,
   optional |-> kind = "Message" /\ ~field.is_deprecated,
   deprecated |-> field.is_deprecated,
   value |-> field.field_id]

\* the member generated for a field: its element type, its shape and
\* whether it is wrapped in Option
Member(field, kind) ==
  [name |-> field.name,
   elem |-> IF field.type_.some THEN field.type_.val ELSE <<>>,
   shape |-> IF field.array_size.some THEN "fixed"
             ELSE IF field.is_array THEN "vec" ELSE "scalar",
   size |-> field.array_size,
   optional |-> kind = "Message",
   deprecated |-> field.is_deprecated,
   value |-> field.field_id]

\* compile_schema_to_rust: one declaration per definition, in order
CompileSchemaToRust(schema) ==
  [module |-> schema.package,
   decls |-> [d \in 1..Len(schema.definitions) |->
                LET def == schema.definitions[d]
                IN [name |-> def.name, kind |-> def.kind,
                    members |-> [i \in 1..Len(def.fields) |->
                                   Member(def.fields[i], def.kind)]]]]

NoCode == [module |-> None, decls |-> <<>>]

(***************************************************************************)
(* The author of a schema file.  A statement is what the author means to   *)
(* write (its parts, its integer as a number); Render is the text typed    *)
(* for it.  The grammar of the design document (4.2) says where a          *)
(* statement is well placed.                                               *)
(***************************************************************************)
MaxStmts == 6
MaxKeys == 4

NoId == [written |-> FALSE, text |-> <<>>, val |-> 0, fits |-> FALSE]
IdLit(text, val) == [written |-> TRUE, text |-> text, val |-> val, fits |-> TRUE]
\* 2147483648: one more than the largest i32
IdTooBig == [written |-> TRUE, fits |-> FALSE, val |-> 0,
             text |-> <<"2", "1", "4", "7", "4", "8", "3", "6", "4", "8">>]

Stmt(s, kind, type, arr, name, id, dep) ==
  [s |-> s, kind |-> kind, type |-> type, arr |-> arr, name |-> name,
   id |-> id, dep |-> dep]

PackageStmt == Stmt("package", "none", <<>>, "none", <<"p">>, NoId, FALSE)
OpenStmt(kind, name) == Stmt("open", kind, <<>>, "none", name, NoId, FALSE)
CloseStmt == Stmt("close", "none", <<>>, "none", <<>>, NoId, FALSE)
FieldStmt(type, arr, name, id, dep) == Stmt("field", "none", type, arr, name, id, dep)

OpenStmts ==
  {OpenStmt("Enum", <<"E">>), OpenStmt("Struct", <<"S">>), OpenStmt("Message", <<"M">>)}

FieldStmts ==
  { \* enum variants
    FieldStmt(<<>>, "none", <<"A">>, IdLit(<<"1">>, 1), FALSE),
    FieldStmt(<<>>, "none", <<"B">>, IdLit(<<"-", "2">>, 0 - 2), FALSE),
    FieldStmt(<<>>, "none", <<"A">>, IdLit(<<"1">>, 1), TRUE),
    \* struct fields
    FieldStmt(W_byte, "none", <<"x">>, NoId, FALSE),
    FieldStmt(W_byte, "fixed", <<"h">>, NoId, FALSE),
    FieldStmt(<<"E">>, "var", <<"v">>, NoId, FALSE),
    FieldStmt(W_byte, "none", <<"x">>, NoId, TRUE),
    \* message fields
    FieldStmt(W_byte, "none", <<"x">>, IdLit(<<"3">>, 3), FALSE),
    FieldStmt(W_byte, "fixed", <<"h">>, IdLit(<<"1">>, 1), TRUE),
    FieldStmt(<<"E">>, "var", <<"v">>, IdLit(<<"-", "2">>, 0 - 2), FALSE),
    FieldStmt(W_byte, "none", <<"x">>, IdTooBig, FALSE) }

\* the fields of an author who reuses ids: in an enum A = 1 and C = 1, in a
\* struct x and h, in a message x = 3, y = 3 and h = 1
IdFieldStmts ==
  { FieldStmt(<<>>, "none", <<"A">>, IdLit(<<"1">>, 1), FALSE),
    FieldStmt(<<>>, "none", <<"C">>, IdLit(<<"1">>, 1), FALSE),
    FieldStmt(W_byte, "none", <<"x">>, NoId, FALSE),
    FieldStmt(W_byte, "fixed", <<"h">>, NoId, FALSE),
    FieldStmt(W_byte, "none", <<"x">>, IdLit(<<"3">>, 3), FALSE),
    FieldStmt(W_byte, "none", <<"y">>, IdLit(<<"3">>, 3), FALSE),
    FieldStmt(W_byte, "fixed", <<"h">>, IdLit(<<"1">>, 1), TRUE) }

IdStmts == {CloseStmt} \cup OpenStmts \cup IdFieldStmts

\* an integer literal that is no i32
IdOut(text) == [written |-> TRUE, fits |-> FALSE, val |-> 0, text |-> text]

W_enum == <<"e", "n", "u", "m">>
W_struct == <<"s", "t", "r", "u", "c", "t">>
W_message == <<"m", "e", "s", "s", "a", "g", "e">>
W_package == <<"p", "a", "c", "k", "a", "g", "e">>
W_deprecated == <<"d", "e", "p", "r", "e", "c", "a", "t", "e", "d">>

\* the largest and smallest i32, and the integers next to them
MaxI32Text == <<"2", "1", "4", "7", "4", "8", "3", "6", "4", "7">>
MinI32Text == <<"-", "2", "1", "4", "7", "4", "8", "3", "6", "4", "8">>
BelowMinI32Text == <<"-", "2", "1", "4", "7", "4", "8", "3", "6", "4", "9">>
\* 4294967297, which is 1 modulo 2^32
WrapsToOneText == <<"4", "2", "9", "4", "9", "6", "7", "2", "9", "7">>

\* the statements of an author who goes to the edges of the language:
\* keywords as names, integers at and beyond the limits of an i32, written
\* with a sign or with leading zeros, array sizes at and beyond the limit
\* of a usize
EdgeOpenStmts ==
  { Stmt("package", "none", <<>>, "none", W_enum, NoId, FALSE),
    CloseStmt,
    OpenStmt("Enum", W_struct),
    OpenStmt("Struct", <<"S">>),
    OpenStmt("Message", W_message) }

EdgeFieldStmts ==
  { \* enum variants
    FieldStmt(<<>>, "none", <<"A">>, IdLit(MaxI32Text, MaxI32), FALSE),
    FieldStmt(<<>>, "none", W_package, IdLit(MinI32Text, MinI32), FALSE),
    FieldStmt(<<>>, "none", <<"C">>, IdTooBig, FALSE),
    FieldStmt(<<>>, "none", <<"D">>, IdOut(BelowMinI32Text), FALSE),
    \* struct fields
    FieldStmt(W_byte, "max", <<"h">>, NoId, FALSE),
    FieldStmt(W_byte, "over", <<"h">>, NoId, FALSE),
    FieldStmt(W_struct, "var", W_enum, NoId, FALSE),
    \* message fields
    FieldStmt(W_byte, "fixed", W_deprecated, IdLit(<<"0", "0", "7">>, 7), TRUE),
    FieldStmt(W_byte, "none", <<"x">>, IdLit(<<"-", "0">>, 0), FALSE),
    FieldStmt(W_byte, "over", <<"y">>, IdLit(<<"1">>, 1), FALSE),
    FieldStmt(W_byte, "none", <<"z">>, IdOut(WrapsToOneText), FALSE) }

EdgeStmts == EdgeOpenStmts \cup EdgeFieldStmts

\* a slip of the author: text that is no statement of the grammar, wherever
\* it is written
RawStmt(text) == Stmt("raw", "none", <<>>, "none", text, NoId, FALSE)

\* one more digit than a usize has
FixedSizeTooBig == <<"9", "9", "9", "9", "9", "9", "9", "9", "9", "9",
                     "9", "9", "9", "9", "9", "9", "9", "9", "9", "9">>

RawStmts ==
  { RawStmt(<<";", "@">>),
    RawStmt(<<"b", "y", "t", "e", " ", "x">>),
    RawStmt(<<"x", "=", ";">>),
    RawStmt(<<"A", "=", ARABIC3, ";">>),
    RawStmt(<<"e", "n", "u", "m", " ", "E", ";">>),
    RawStmt(<<"b", "y", "t", "e", "[">> \o FixedSizeTooBig \o <<"]", " ", "h", ";">>) }

Stmts == {PackageStmt, CloseStmt} \cup OpenStmts \cup FieldStmts \cup RawStmts

\* the size written in a fixed array
FixedSizeText == <<"0", "3">>

\* 18446744073709551616: one more than the largest usize
UsizeOverDigits == <<"1", "8", "4", "4", "6", "7", "4", "4", "0", "7",
                     "3", "7", "0", "9", "5", "5", "1", "6", "1", "6">>

\* the size written in an array: 03, the largest usize, or one more
SizeText(arr) ==
  CASE arr = "fixed" -> FixedSizeText
    [] arr = "max" -> UsizeMaxDigits
    [] arr = "over" -> UsizeOverDigits

\* the text typed for a statement, one statement per line
Render(st) ==
  CASE st.s = "package" -> <<"p", "a", "c", "k", "a", "g", "e", " ">> \o st.name \o <<";", "\n">>
    [] st.s = "open" -> Keyword(st.kind) \o <<" ">> \o st.name \o <<"{", "\n">>
    [] st.s = "close" -> <<"}", "\n">>
    [] st.s = "raw" -> st.name \o <<"\n">>
    [] st.s = "field" ->
         (IF st.type # <<>>
          THEN st.type
               \o (CASE st.arr = "var" -> <<"[", "]">>
                     [] st.arr \in {"fixed", "max", "over"} ->
                          <<"[">> \o SizeText(st.arr) \o <<"]">>
                     [] OTHER -> <<>>)
               \o <<" ">>
          ELSE <<>>)
         \o st.name
         \o (IF st.id.written THEN <<"=">> \o st.id.text ELSE <<>>)
         \o (IF st.dep THEN <<" ">> \o DeprecatedText ELSE <<>>)
         \o <<";", "\n">>

RECURSIVE Context(_)
\* where the next statement lands: "top", or the kind of the open definition
Context(sc) ==
  IF sc = <<>> THEN "top"
  ELSE LET last == sc[Len(sc)]
       IN CASE last.s = "open" -> last.kind
            [] last.s \in {"close", "package"} -> "top"
            [] OTHER -> Context(SubSeq(sc, 1, Len(sc) - 1))

\* the grammar: statement st may follow the statements sc
WellPlaced(st, sc) ==
  LET ctx == Context(sc)
  IN CASE st.s = "package" -> sc = <<>>
       [] st.s = "open" -> ctx = "top"
       [] st.s = "close" -> ctx # "top"
       [] st.s = "raw" -> FALSE
       [] st.s = "field" ->
            CASE ctx = "Enum" ->
                   st.type = <<>> /\ st.id.written /\ st.id.fits /\ ~st.dep
              [] ctx = "Struct" ->
                   st.type # <<>> /\ st.arr # "over" /\ ~st.id.written /\ ~st.dep
              [] ctx = "Message" ->
                   st.type # <<>> /\ st.arr # "over" /\ st.id.written /\ st.id.fits
              [] OTHER -> FALSE

\* every statement of sc is well placed
WellFormed(sc) == \A i \in 1..Len(sc) : WellPlaced(sc[i], SubSeq(sc, 1, i - 1))

\* sc is a whole schema: well formed, with no definition left open
Complete(sc) == WellFormed(sc) /\ Context(sc) = "top"

\* the characters typed one at a time when exercising the tokenizer
Keys == {<<"a">>, <<"1">>, <<"-">>, <<";">>, <<"[">>, <<"]">>, <<"/">>, <<" ">>,
         <<"\n">>, <<"@">>, <<NBSP>>, <<EACUTE>>, <<ARABIC3>>, DeprecatedText}

(***************************************************************************)
(* The state machine: the author writes, then the pipeline of lib.rs runs  *)
(* stage by stage (compile), or the AST is formatted and read back.        *)
(***************************************************************************)
NoTokens == [ok |-> FALSE, tokens |-> <<>>, err |-> NoError]

\* compile called as a library function (lib.rs 29), no command of the CLI
Library == [command |-> "none", output |-> FALSE, file |-> NoCode, written |-> FALSE,
            stdout |-> NoCode, printed |-> FALSE, exit |-> "running"]

\* no function of the library is being called on its own
NoCall == [fn |-> "none"]
NoParse == [ok |-> FALSE, panic |-> FALSE, schema |-> EmptySchema, err |-> NoError]
NoRoundTrip == [tok |-> NoTokens, parse |-> NoParse, text |-> <<>>]

Init ==
  /\ source = <<>>
  /\ script = <<>>
  /\ pc = "edit"
  /\ stages = <<>>
  /\ tokRes = NoTokens
  /\ parseRes = NoParse
  /\ error = NoError
  /\ code = NoCode
  /\ canon = <<>>
  /\ rt = NoRoundTrip
  /\ cli = Library
  /\ arg = NoCall
  /\ ret = NoCall

\* the author appends a statement, and writes fields only inside a
\* definition; after the first statement the grammar rejects, the author
\* at most closes the definition a rejected field was written in
Write(st) ==
  /\ pc = "edit"
  /\ Len(script) < MaxStmts
  /\ \/ WellFormed(script)
     \/ /\ st = CloseStmt
        /\ script # <<>>
        /\ ~WellFormed(script)
        /\ script[Len(script)].s = "field"
        /\ WellFormed(SubSeq(script, 1, Len(script) - 1))
  /\ st.s = "field" => Context(script) # "top"
  /\ script' = Append(script, st)
  /\ source' = source \o Render(st)
  /\ UNCHANGED <<pc, stages, tokRes, parseRes, error, code, canon, rt,
               cli, arg, ret>>

\* the author types one key
Type(key) ==
  /\ pc = "edit"
  /\ Len(script) < MaxKeys
  /\ script' = Append(script, key)
  /\ source' = source \o key
  /\ UNCHANGED <<pc, stages, tokRes, parseRes, error, code, canon, rt,
               cli, arg, ret>>

\* compile, line 30: let tokens = tokenize_schema(source)?;
Tokenize ==
  /\ pc \in {"edit", "read"}
  /\ tokRes' = TokenizeSchema(source)
  /\ pc' = IF tokRes'.ok THEN "tokenized" ELSE "failed"
  /\ error' = IF tokRes'.ok THEN error ELSE tokRes'.err
  /\ stages' = Append(stages, "tokenize")
  /\ UNCHANGED <<source, script, parseRes, code, canon, rt,
               cli, arg, ret>>

\* a compile that goes on with the schema parsed so far after a parse error
ParseUnchecked ==
  /\ pc = "tokenized"
  /\ parseRes' = ParseSchema(tokRes.tokens)
  /\ pc' = IF parseRes'.panic THEN "panicked" ELSE "parsed"
  /\ stages' = Append(stages, "parse")
  /\ UNCHANGED <<source, script, tokRes, error, code, canon, rt,
               cli, arg, ret>>

\* compile, line 31: let schema = parse_schema(&tokens)?;
Parse ==
  /\ pc = "tokenized"
  /\ parseRes' = ParseSchema(tokRes.tokens)
  /\ pc' = IF parseRes'.ok THEN "parsed"
           ELSE IF parseRes'.panic THEN "panicked" ELSE "failed"
  /\ error' = IF parseRes'.ok \/ parseRes'.panic THEN error ELSE parseRes'.err
  /\ stages' = Append(stages, "parse")
  /\ UNCHANGED <<source, script, tokRes, code, canon, rt,
               cli, arg, ret>>

\* a compile that drops the verifier's result
VerifyIgnored ==
  /\ pc = "parsed"
  /\ pc' = "verified"
  /\ stages' = Append(stages, "verify")
  /\ UNCHANGED <<source, script, tokRes, parseRes, error, code, canon, rt,
               cli, arg, ret>>

\* compile, line 32: verify_schema(&schema)?;
Verify ==
  /\ pc = "parsed"
  /\ error' = VerifySchema(parseRes.schema).err
  /\ pc' = IF error'.variant = "None" THEN "verified" ELSE "failed"
  /\ stages' = Append(stages, "verify")
  /\ UNCHANGED <<source, script, tokRes, parseRes, code, canon, rt,
               cli, arg, ret>>

\* compile, line 33: Ok(compile_schema_to_rust(&schema))
Generate ==
  /\ pc = "verified"
  /\ cli.command # "validate"
  /\ code' = CompileSchemaToRust(parseRes.schema)
  /\ pc' = "done"
  /\ stages' = Append(stages, "generate")
  /\ UNCHANGED <<source, script, tokRes, parseRes, error, canon, rt,
               cli, arg, ret>>

\* format_schema on the parsed AST (formatter.rs, parse_and_format)
Format ==
  /\ pc = "parsed"
  /\ canon' = FormatSchema(parseRes.schema)
  /\ pc' = "formatted"
  /\ UNCHANGED <<source, script, stages, tokRes, parseRes, error, code, rt,
               cli, arg, ret>>

\* format_schema on what parse_schema returned for the tokens t
Reformatted(t, parsed) ==
  LET p == parsed
  IN [tok |-> t, parse |-> p,
      text |-> IF p.ok THEN FormatSchema(p.schema) ELSE <<>>]

\* parse_schema on what tokenize_schema returned
Reparsed(tokenized) ==
  LET t == tokenized
  IN Reformatted(t, IF t.ok THEN ParseSchema(t.tokens) ELSE NoParse)

\* the formatted text is read back: tokenized, parsed and formatted again
ReadBack(text) == Reparsed(TokenizeSchema(text))

Reformat ==
  /\ pc = "formatted"
  /\ rt' = ReadBack(canon)
  /\ pc' = "reformatted"
  /\ UNCHANGED <<source, script, stages, tokRes, parseRes, error, code, canon,
               cli, arg, ret>>

Next ==
  \/ \E st \in Stmts : Write(st)
  \/ Tokenize
  \/ Parse
  \/ Verify
  \/ Generate
  \/ Format
  \/ Reformat

Spec == Init /\ [][Next]_vars

\* compile on the schema files of the author who reuses ids
NextIds ==
  \/ \E st \in IdStmts : Write(st)
  \/ Tokenize
  \/ Parse
  \/ Verify
  \/ Generate

SpecIds == Init /\ [][NextIds]_vars

(***************************************************************************)
(* The commands of the CLI (cli/src/main.rs): gen-rust, with or without    *)
(* an output path, and validate, run on the schema file the author wrote.  *)
(***************************************************************************)
\* the schema files the commands are run on: those of the author who
\* reuses ids, and text the tokenizer refuses
CliStmts == IdStmts \cup {RawStmt(<<";", "@">>)}

Commands ==
  { [command |-> "gen-rust", output |-> TRUE],
    [command |-> "gen-rust", output |-> FALSE],
    [command |-> "validate", output |-> FALSE] }

\* main, lines 54-60, and the read of the input file (lines 69, 86)
Invoke(c) ==
  /\ pc = "edit"
  /\ cli = Library
  /\ cli' = [Library EXCEPT !.command = c.command, !.output = c.output]
  /\ pc' = "read"
  /\ UNCHANGED <<source, script, stages, tokRes, parseRes, error, code, canon, rt,
                 arg, ret>>

\* a gen-rust that writes whatever compile left, had it failed or not
WriteFileUnchecked ==
  /\ pc \in {"done", "failed"}
  /\ cli.command = "gen-rust" /\ cli.output
  /\ cli' = [cli EXCEPT !.file = code, !.written = TRUE, !.exit = "0"]
  /\ pc' = "exited"
  /\ UNCHANGED <<source, script, stages, tokRes, parseRes, error, code, canon, rt,
                 arg, ret>>

\* gen_rust, lines 73-76 and 82: fs::write(&path, &rust_code)? succeeds
WriteFile ==
  /\ pc = "done"
  /\ cli.command = "gen-rust" /\ cli.output
  /\ cli' = [cli EXCEPT !.file = code, !.written = TRUE, !.exit = "0"]
  /\ pc' = "exited"
  /\ UNCHANGED <<source, script, stages, tokRes, parseRes, error, code, canon, rt,
                 arg, ret>>

\* gen_rust, line 74: fs::write returns an I/O error, main exits with 1
WriteFileFails ==
  /\ pc = "done"
  /\ cli.command = "gen-rust" /\ cli.output
  /\ cli' = [cli EXCEPT !.exit = "1"]
  /\ error' = [variant |-> "Io", msg |-> "", found |-> <<>>, line |-> 0, column |-> 0]
  /\ pc' = "exited"
  /\ UNCHANGED <<source, script, stages, tokRes, parseRes, code, canon, rt,
                 arg, ret>>

\* gen_rust, lines 77-79 and 82: println!("{}", rust_code)
WriteStdout ==
  /\ pc = "done"
  /\ cli.command = "gen-rust" /\ ~cli.output
  /\ cli' = [cli EXCEPT !.stdout = code, !.printed = TRUE, !.exit = "0"]
  /\ pc' = "exited"
  /\ UNCHANGED <<source, script, stages, tokRes, parseRes, error, code, canon, rt,
                 arg, ret>>

\* validate, lines 92-107: the report on stderr, Ok(())
ValidateReport ==
  /\ pc = "verified"
  /\ cli.command = "validate"
  /\ cli' = [cli EXCEPT !.exit = "0"]
  /\ pc' = "exited"
  /\ UNCHANGED <<source, script, stages, tokRes, parseRes, error, code, canon, rt,
                 arg, ret>>

\* main, lines 62-65: the error of a ? is printed on stderr, exit(1)
ExitWithError ==
  /\ pc = "failed"
  /\ cli.command # "none"
  /\ cli' = [cli EXCEPT !.exit = "1"]
  /\ pc' = "exited"
  /\ UNCHANGED <<source, script, stages, tokRes, parseRes, error, code, canon, rt,
                 arg, ret>>

NextCli ==
  \/ \E st \in CliStmts : Write(st)
  \/ \E c \in Commands : Invoke(c)
  \/ (pc = "read" /\ Tokenize)
  \/ Parse
  \/ Verify
  \/ Generate
  \/ WriteFile
  \/ WriteFileFails
  \/ WriteStdout
  \/ ValidateReport
  \/ ExitWithError

SpecCli == Init /\ [][NextCli]_vars

(***************************************************************************)
(* parse_schema followed loop by loop (parser.rs 29-202): the package      *)
(* declaration, then one step per test of the definition loop and per      *)
(* test of the field loop, each with the body it enters.  The locals of    *)
(* parse_schema are held in ret while it runs; its tokens are in arg.      *)
(***************************************************************************)
MaxParseStmts == 6

\* the schema files parse_schema is followed on: whole ones, ones that stop
\* inside a definition, and ones that stop inside a package declaration or
\* inside a field
ParseStmts ==
  {PackageStmt, CloseStmt} \cup OpenStmts
    \cup { FieldStmt(<<>>, "none", <<"A">>, IdLit(<<"1">>, 1), FALSE),
           FieldStmt(W_byte, "none", <<"x">>, NoId, FALSE),
           FieldStmt(W_byte, "fixed", <<"h">>, IdLit(<<"1">>, 1), TRUE),
           RawStmt(<<"p", "a", "c", "k", "a", "g", "e">>),
           RawStmt(<<"b", "y", "t", "e", " ", "x">>),
           RawStmt(<<"b", "y", "t", "e", "[", "0", "3", "]">>),
           RawStmt(<<"A", "=">>) }

\* the locals of parse_schema after the package declaration (parser.rs
\* 30-32, 73-82); at says which loop is tested next
Parsing(pk) ==
  [fn |-> "parse_schema", at |-> "definitions", ps |-> pk.ps,
   package_text |-> pk.package, definitions |-> <<>>,
   kind |-> "none", name_tok |-> Token(<<>>, 0, 0), fields |-> <<>>]

\* parser.rs 86-99: the keyword, the name and the brace of a definition
\* whose keyword is the token at ps
DefinitionHead(tokens, r, kind) ==
  LET p1 == [r.ps EXCEPT !.index = @ + 1]
      p3 == Expect(tokens, Expect(tokens, p1, "IDENTIFIER", "Expected identifier"),
                   "LEFT_BRACE", "Expected \"{\"")
  IN IF kind = "none" THEN [r EXCEPT !.ps = UnexpectedToken(tokens, r.ps)]
     ELSE IF p3.status # "ok" THEN [r EXCEPT !.ps = p3]
     ELSE [r EXCEPT !.ps = p3, !.at = "fields", !.kind = kind,
                    !.name_tok = CurrentToken(tokens, p1.index), !.fields = <<>>]

\* parser.rs 85: the locals after the test index < tokens.len() &&
\* !eat(EOF), and after the head of the definition if the loop goes on
DefinitionStep(tokens, r) ==
  IF r.ps.index >= Len(tokens) THEN [r EXCEPT !.at = "end"]
  ELSE IF IsEofTok(CurrentToken(tokens, r.ps.index).text)
  THEN [r EXCEPT !.ps = Eat(tokens, r.ps, "EOF"), !.at = "end"]
  ELSE DefinitionHead(tokens, r, KindOf(CurrentToken(tokens, r.ps.index).text))

\* parser.rs 104-187: the locals after one iteration of the field loop
FieldPushed(r, parsed) ==
  LET f == parsed
  IN IF f.ps.status # "ok" THEN [r EXCEPT !.ps = f.ps]
     ELSE [r EXCEPT !.ps = f.ps, !.fields = Append(@, f.field)]

\* parser.rs 103: the locals after the test !eat(RIGHT_BRACE): the
\* definition is pushed (189-195) if the brace was eaten, and a field is
\* read if not
FieldStep(tokens, r, eaten) ==
  LET e == eaten
  IN IF e.status # "ok" THEN [r EXCEPT !.ps = e]
     ELSE IF Ate(r.ps, e)
     THEN [r EXCEPT !.ps = e, !.at = "definitions",
                    !.definitions = Append(@, Definition(r.name_tok.text, r.name_tok.line,
                                                         r.name_tok.column, r.kind, r.fields))]
     ELSE FieldPushed(r, ParseField(tokens, r.ps, r.kind, r.fields))

\* where the caller stands after a step of parse_schema
AfterStep(r) == IF r.ps.status # "ok" \/ r.at = "end" THEN "returning" ELSE "parsing"

\* compile, line 31: parse_schema is called on the tokens; parser.rs 73-82
CallParseSchema ==
  /\ pc = "tokenized"
  /\ arg' = [fn |-> "parse_schema", tokens |-> tokRes.tokens]
  /\ ret' = Parsing(ParsePackage(tokRes.tokens))
  /\ pc' = AfterStep(ret')
  /\ UNCHANGED <<source, script, stages, tokRes, parseRes, error, code, canon, rt, cli>>

\* one test of the definition loop
DefinitionLoop ==
  /\ pc = "parsing"
  /\ ret.at = "definitions"
  /\ ret' = DefinitionStep(arg.tokens, ret)
  /\ pc' = AfterStep(ret')
  /\ UNCHANGED <<source, script, stages, tokRes, parseRes, error, code, canon, rt,
                 cli, arg>>

\* one test of the field loop
FieldLoop ==
  /\ pc = "parsing"
  /\ ret.at = "fields"
  /\ ret' = FieldStep(arg.tokens, ret, Eat(arg.tokens, ret.ps, "RIGHT_BRACE"))
  /\ pc' = AfterStep(ret')
  /\ UNCHANGED <<source, script, stages, tokRes, parseRes, error, code, canon, rt,
                 cli, arg>>

\* parse_schema returns: Ok(Schema { .. }) (parser.rs 198-201), the Err of
\* a ?, or the panic of current_token
ParseReturn ==
  /\ pc = "returning"
  /\ parseRes' = SchemaParsed(ret.package_text, [ps |-> ret.ps, defs |-> ret.definitions])
  /\ pc' = IF parseRes'.ok THEN "parsed"
           ELSE IF parseRes'.panic THEN "panicked" ELSE "failed"
  /\ error' = IF parseRes'.ok \/ parseRes'.panic THEN error ELSE parseRes'.err
  /\ stages' = Append(stages, "parse")
  /\ UNCHANGED <<source, script, tokRes, code, canon, rt, cli, arg, ret>>

NextParse ==
  \/ \E st \in ParseStmts : Len(script) < MaxParseStmts /\ Write(st)
  \/ Tokenize
  \/ CallParseSchema
  \/ DefinitionLoop
  \/ FieldLoop
  \/ ParseReturn

SpecParse == Init /\ [][NextParse]_vars

\* the schema files of the author at the edges are parsed, formatted and
\* read back
MaxEdgeStmts == 6

NextEdge ==
  \/ \E st \in EdgeStmts : Len(script) < MaxEdgeStmts /\ Write(st)
  \/ Tokenize
  \/ Parse
  \/ Format
  \/ Reformat

SpecEdge == Init /\ [][NextEdge]_vars

\* compile on the schema files of an author who writes statements in any
\* order and mistypes: text with a character of no token ("@") after or
\* before statements that are out of place
MaxPrecStmts == 4

\* statements with a character of no token
BadStmts ==
  { RawStmt(<<"@">>),
    RawStmt(<<";", "@">>),
    RawStmt(<<"x", " ", "@", "y", ";">>) }

PrecStmts ==
  BadStmts
    \cup { OpenStmt("Struct", <<"S">>),
           CloseStmt,
           FieldStmt(W_byte, "none", <<"x">>, NoId, FALSE),
           FieldStmt(<<>>, "none", <<"A">>, IdLit(<<"1">>, 1), FALSE),
           RawStmt(<<"/", "/", " ", "@">>) }

\* the author appends a statement, wherever it lands
WriteAnywhere(st) ==
  /\ pc = "edit"
  /\ Len(script) < MaxPrecStmts
  /\ script' = Append(script, st)
  /\ source' = source \o Render(st)
  /\ UNCHANGED <<pc, stages, tokRes, parseRes, error, code, canon, rt,
                 cli, arg, ret>>

NextPrec ==
  \/ \E st \in PrecStmts : WriteAnywhere(st)
  \/ Tokenize
  \/ Parse
  \/ Verify
  \/ Generate

SpecPrec == Init /\ [][NextPrec]_vars

NextLex ==
  \/ \E key \in Keys : Type(key)
  \/ Tokenize

SpecLex == Init /\ [][NextLex]_vars

(***************************************************************************)
(* format_schema called on a schema built through the public fields of     *)
(* Schema, Definition and Field (schema/src/types.rs): any package, any    *)
(* definitions, variants in enums and typed fields in structs and          *)
(* messages, deprecated or not.                                            *)
(***************************************************************************)
MaxFmtDefs == 2
MaxFmtFields == 3

W_NodeRole == <<"N", "o", "d", "e", "R", "o", "l", "e">>
W_STORAGE == <<"S", "T", "O", "R", "A", "G", "E">>
W_VALIDATOR == <<"V", "A", "L", "I", "D", "A", "T", "O", "R">>

\* the name given to a definition of each kind
FmtName(kind) ==
  CASE kind = "Enum" -> W_NodeRole
    [] kind = "Struct" -> <<"S">>
    [] kind = "Message" -> <<"M">>

\* enum variants
FmtVariants ==
  { Field(W_STORAGE, 1, 1, None, FALSE, None, FALSE, 1),
    Field(W_VALIDATOR, 1, 1, None, FALSE, None, FALSE, 2) }

\* typed fields: a scalar, a deprecated fixed array, a variable array of a
\* definition with a negative id
FmtTyped ==
  { Field(<<"x">>, 1, 1, Some(W_byte), FALSE, None, FALSE, 3),
    Field(<<"h">>, 1, 1, Some(W_byte), TRUE, Some(<<"3", "2">>), TRUE, 1),
    Field(<<"v">>, 1, 1, Some(W_NodeRole), TRUE, None, FALSE, 0 - 2) }

FmtFields(kind) == IF kind = "Enum" THEN FmtVariants ELSE FmtTyped

\* the number of fields of a schema
RECURSIVE FieldCount(_)
FieldCount(defs) ==
  IF defs = <<>> THEN 0 ELSE Len(Head(defs).fields) + FieldCount(Tail(defs))

FormatCall(schema) == [fn |-> "format_schema", schema |-> schema]

InitFmt ==
  /\ source = <<>>
  /\ script = <<>>
  /\ pc = "call"
  /\ stages = <<>>
  /\ tokRes = NoTokens
  /\ parseRes = NoParse
  /\ error = NoError
  /\ code = NoCode
  /\ canon = <<>>
  /\ rt = NoRoundTrip
  /\ cli = Library
  /\ arg = FormatCall(EmptySchema)
  /\ ret = NoCall

\* schema.package = Some(name)
SetPackage(name) ==
  /\ pc = "call"
  /\ ~arg.schema.package.some
  /\ arg' = FormatCall(Schema(Some(name), arg.schema.definitions))
  /\ UNCHANGED <<source, script, pc, stages, tokRes, parseRes, error, code, canon, rt,
                 cli, ret>>

\* schema.definitions.push(Definition { kind, fields: vec![], .. })
PushDefinition(kind) ==
  /\ pc = "call"
  /\ Len(arg.schema.definitions) < MaxFmtDefs
  /\ arg' = FormatCall(Schema(arg.schema.package,
                              Append(arg.schema.definitions,
                                     Definition(FmtName(kind), 1, 1, kind, <<>>))))
  /\ UNCHANGED <<source, script, pc, stages, tokRes, parseRes, error, code, canon, rt,
                 cli, ret>>

\* fields.push(field) on the last definition
PushField(field) ==
  /\ pc = "call"
  /\ arg.schema.definitions # <<>>
  /\ FieldCount(arg.schema.definitions) < MaxFmtFields
  /\ LET defs == arg.schema.definitions
          n == Len(defs)
     IN /\ field \in FmtFields(defs[n].kind)
        /\ arg' = FormatCall(Schema(arg.schema.package,
                     [defs EXCEPT ![n].fields = Append(@, field)]))
  /\ UNCHANGED <<source, script, pc, stages, tokRes, parseRes, error, code, canon, rt,
                 cli, ret>>

\* format_schema(&schema)
CallFormatSchema ==
  /\ pc = "call"
  /\ arg.fn = "format_schema"
  /\ ret' = [fn |-> "format_schema", val |-> FormatSchema(arg.schema)]
  /\ pc' = "returned"
  /\ UNCHANGED <<source, script, stages, tokRes, parseRes, error, code, canon, rt,
                 cli, arg>>

NextFmt ==
  \/ SetPackage(<<"p">>)
  \/ \E kind \in {"Enum", "Struct", "Message"} : PushDefinition(kind)
  \/ \E field \in FmtVariants \cup FmtTyped : PushField(field)
  \/ CallFormatSchema

SpecFmt == InitFmt /\ [][NextFmt]_vars

(***************************************************************************)
(* Field::is_fixed_byte_array (schema/src/types.rs) and                    *)
(* escape_rust_keyword (tcs-compiler/src/utils.rs), each called on its own *)
(***************************************************************************)
\* a field read by its fixed-size flag instead of its size
IsFixedByteArrayByFlag(field) ==
  field.is_array /\ field.type_ = Some(W_byte)

\* self.array_size.is_some() && self.type_.as_deref() == Some("byte")
IsFixedByteArray(field) ==
  field.array_size.some /\ field.type_ = Some(W_byte)

\* KEYWORDS
Keywords ==
  { <<"a", "s">>, <<"b", "r", "e", "a", "k">>, <<"c", "o", "n", "s", "t">>,
    <<"c", "o", "n", "t", "i", "n", "u", "e">>, <<"c", "r", "a", "t", "e">>,
    <<"e", "l", "s", "e">>, <<"e", "n", "u", "m">>,
    <<"e", "x", "t", "e", "r", "n">>, <<"f", "a", "l", "s", "e">>,
    <<"f", "n">>, <<"f", "o", "r">>, <<"i", "f">>, <<"i", "m", "p", "l">>,
    <<"i", "n">>, <<"l", "e", "t">>, <<"l", "o", "o", "p">>,
    <<"m", "a", "t", "c", "h">>, <<"m", "o", "d">>, <<"m", "o", "v", "e">>,
    <<"m", "u", "t">>, <<"p", "u", "b">>, <<"r", "e", "f">>,
    <<"r", "e", "t", "u", "r", "n">>, <<"s", "e", "l", "f">>,
    <<"S", "e", "l", "f">>, <<"s", "t", "a", "t", "i", "c">>,
    <<"s", "t", "r", "u", "c", "t">>, <<"s", "u", "p", "e", "r">>,
    <<"t", "r", "a", "i", "t">>, <<"t", "r", "u", "e">>,
    <<"t", "y", "p", "e">>, <<"u", "n", "s", "a", "f", "e">>,
    <<"u", "s", "e">>, <<"w", "h", "e", "r", "e">>,
    <<"w", "h", "i", "l", "e">>, <<"a", "s", "y", "n", "c">>,
    <<"a", "w", "a", "i", "t">>, <<"d", "y", "n">> }

\* a function that escapes the names that are no keywords
EscapeRustKeywordInverted(s) ==
  IF s \notin Keywords THEN s \o <<"_">> ELSE s

\* escape_rust_keyword
EscapeRustKeyword(s) ==
  IF s \in Keywords THEN s \o <<"_">> ELSE s

\* the fields is_fixed_byte_array is called on
FieldArgs ==
  { Field(<<"h">>, 1, 1, type_, is_array, array_size, is_deprecated, field_id) :
      type_ \in {None, Some(W_byte), Some(<<"B", "y", "t", "e">>),
                 Some(<<"b", "y", "t", "e", "s">>), Some(<<"u", "i", "n", "t", "8">>)},
      is_array \in BOOLEAN,
      array_size \in {None, Some(<<"0">>), Some(<<"3", "2">>)},
      is_deprecated \in BOOLEAN,
      field_id \in {0 - 2, 1} }

\* the names escape_rust_keyword is called on: the keywords, the keywords
\* with an underscore, with a letter more and without their last letter,
\* and names that are no keywords
WordArgs ==
  Keywords
  \cup {w \o <<"_">> : w \in Keywords}
  \cup {w \o <<"s">> : w \in Keywords}
  \cup {SubSeq(w, 1, Len(w) - 1) : w \in Keywords}
  \cup {<<"n", "a", "m", "e">>, <<"T", "y", "p", "e">>, <<"_">>, <<"s", "e", "l", "f", "_", "_">>}

FixedCall(field) == [fn |-> "is_fixed_byte_array", field |-> field]
EscapeCall(s) == [fn |-> "escape_rust_keyword", s |-> s]

InitUtil ==
  /\ source = <<>>
  /\ script = <<>>
  /\ pc = "call"
  /\ stages = <<>>
  /\ tokRes = NoTokens
  /\ parseRes = NoParse
  /\ error = NoError
  /\ code = NoCode
  /\ canon = <<>>
  /\ rt = NoRoundTrip
  /\ cli = Library
  /\ arg \in {FixedCall(field) : field \in FieldArgs} \cup {EscapeCall(s) : s \in WordArgs}
  /\ ret = NoCall

\* field.is_fixed_byte_array()
CallIsFixedByteArray ==
  /\ pc = "call"
  /\ arg.fn = "is_fixed_byte_array"
  /\ ret' = [fn |-> "is_fixed_byte_array", val |-> IsFixedByteArray(arg.field)]
  /\ pc' = "returned"
  /\ UNCHANGED <<source, script, stages, tokRes, parseRes, error, code, canon, rt,
                 cli, arg>>

\* escape_rust_keyword(s)
CallEscapeRustKeyword ==
  /\ pc = "call"
  /\ arg.fn = "escape_rust_keyword"
  /\ ret' = [fn |-> "escape_rust_keyword", val |-> EscapeRustKeyword(arg.s)]
  /\ pc' = "returned"
  /\ UNCHANGED <<source, script, stages, tokRes, parseRes, error, code, canon, rt,
                 cli, arg>>

NextUtil ==
  \/ CallIsFixedByteArray
  \/ CallEscapeRustKeyword

SpecUtil == InitUtil /\ [][NextUtil]_vars

(***************************************************************************)
(* Properties of the tokenizer, checked under SpecLex                      *)
(***************************************************************************)
Tokenized == pc # "edit" /\ stages # <<>>

\* the matches the scan of the source finds
Matches == FindIter(source, 0)

RECURSIVE ContiguousEnd(_, _, _)
\* where the run of matches that starts at offset pos, each beginning
\* where the previous one ended, stops
ContiguousEnd(ms, k, pos) ==
  IF k <= Len(ms) /\ ms[k].start = pos
  THEN ContiguousEnd(ms, k + 1, ms[k].end)
  ELSE pos

\* the offset of the first character no match covers (Len(source) if none)
FirstGap == ContiguousEnd(Matches, 1, 0)

\* the line of the character at offset p: 1 + the newlines before it
LineAt(text, p) == 1 + Cardinality({i \in 1..p : text[i] = "\n"})

\* the column of the character at offset p: 1 + the characters between the
\* last newline before it and it
ColumnAt(text, p) ==
  LET nls == {i \in 1..p : text[i] = "\n"}
      lastNl == IF nls = {} THEN 0 ELSE CHOOSE i \in nls : \A j \in nls : j <= i
  IN 1 + (p - lastNl)

\* C4: tokenizing succeeds with the matches covering the text from offset 0
\* to its end, each starting where the previous one ended, or fails with a
\* ParseError at the line and column of the first unrecognised character
C4_LexicalContiguity ==
  Tokenized =>
    IF tokRes.ok
    THEN /\ FirstGap = Len(source)
         /\ \A k \in 1..Len(Matches) :
              Matches[k].start = (IF k = 1 THEN 0 ELSE Matches[k - 1].end)
    ELSE /\ FirstGap < Len(source)
         /\ tokRes.err.variant = "ParseError"
         /\ tokRes.err.line = LineAt(source, FirstGap)
         /\ tokRes.err.column = ColumnAt(source, FirstGap)

\* C5: a successful token sequence is never empty, its last token has empty
\* text, no earlier token has, and the empty input gives the EOF token at 1:1
C5_EndsWithOneEof ==
  (Tokenized /\ tokRes.ok) =>
    LET toks == tokRes.tokens
    IN /\ toks # <<>>
       /\ toks[Len(toks)].text = <<>>
       /\ \A i \in 1..(Len(toks) - 1) : toks[i].text # <<>>
       /\ source = <<>> => toks = <<Token(<<>>, 1, 1)>>

C5_Witness ==
  /\ Tokenized /\ tokRes.ok
  /\ Len(tokRes.tokens) >= 3
  /\ \E i \in 1..Len(source) : IsSpace(source[i])

\* the matches that are emitted as tokens, in order
TokenMatches == SelectSeq(Matches,
                  LAMBDA m : IsTokenPart(SubSeq(source, m.start + 1, m.end)))

\* C6: every token, the EOF token included, carries the 1-indexed line and
\* the 1-indexed column, counted in characters, of its first character
C6_TokenPositions ==
  (Tokenized /\ tokRes.ok) =>
    LET toks == tokRes.tokens
        n == Len(toks)
    IN /\ n = Len(TokenMatches) + 1
       /\ \A i \in 1..(n - 1) :
            /\ toks[i].text = SubSeq(source, TokenMatches[i].start + 1, TokenMatches[i].end)
            /\ toks[i].line = LineAt(source, TokenMatches[i].start)
            /\ toks[i].column = ColumnAt(source, TokenMatches[i].start)
       /\ toks[n].line = LineAt(source, Len(source))
       /\ toks[n].column = ColumnAt(source, Len(source))

\* a text is a run of whitespace
IsSpaceRun(t) == t # <<>> /\ \A i \in 1..Len(t) : IsSpace(t[i])

\* a text is a line comment
IsLineComment(t) == Len(t) >= 2 /\ t[1] = "/" /\ t[2] = "/"

\* the text of a match of the scan of the source
MatchText(m) == SubSeq(source, m.start + 1, m.end)

\* the matches of the scan that are neither whitespace nor comments
Significant ==
  SelectSeq(Matches, LAMBDA m : ~IsSpaceRun(MatchText(m)) /\ ~IsLineComment(MatchText(m)))

\* the texts of the tokens before the EOF token
TokenTexts(toks) == [i \in 1..(Len(toks) - 1) |-> toks[i].text]

\* whitespace and a comment on a line of its own
Filler == <<" ", "/", "/", " ", "\n", "\t">>

\* the source with the filler inserted at offset p
Filled(p) == SubSeq(source, 1, p) \o Filler \o SubSeq(source, p + 1, Len(source))

\* the offsets between tokens: where a token starts, and the end
TokenBounds == {Significant[k].start : k \in 1..Len(Significant)} \cup {Len(source)}

\* C15: no token before the EOF token is a whitespace run or a line
\* comment; the token texts are the texts of the matches that are neither,
\* in source order; and whitespace and a comment inserted between tokens
\* leave the sequence of token texts as it is
C15_NoTriviaTokens ==
  (Tokenized /\ tokRes.ok) =>
    /\ \A i \in 1..Len(tokRes.tokens) :
         ~IsSpaceRun(tokRes.tokens[i].text) /\ ~IsLineComment(tokRes.tokens[i].text)
    /\ TokenTexts(tokRes.tokens) = [k \in 1..Len(Significant) |-> MatchText(Significant[k])]
    /\ \A p \in TokenBounds :
         /\ TokenizeSchema(Filled(p)).ok
         /\ TokenTexts(TokenizeSchema(Filled(p)).tokens) = TokenTexts(tokRes.tokens)

\* a source with a comment, whitespace and a token has been tokenized
C15_Witness ==
  /\ Tokenized /\ tokRes.ok
  /\ Len(tokRes.tokens) >= 2
  /\ \E k \in 1..Len(Matches) : IsLineComment(MatchText(Matches[k]))
  /\ \E k \in 1..Len(Matches) : IsSpaceRun(MatchText(Matches[k]))

(***************************************************************************)
(* Properties of the parser and of the formatter, checked under Spec       *)
(***************************************************************************)
\* parse_schema has been called on the tokens of the source
ParseRan == Len(stages) >= 2

\* parse_schema has returned a schema
ParseOk == ParseRan /\ parseRes.ok

\* the fields of a schema in order, each with the kind of its definition
AllFields(schema) ==
  Concat([d \in 1..Len(schema.definitions) |->
            [i \in 1..Len(schema.definitions[d].fields) |->
               [kind |-> schema.definitions[d].kind,
                field |-> schema.definitions[d].fields[i]]]])

\* the field statements the author wrote, in order
FieldsWritten == SelectSeq(script, LAMBDA st : st.s = "field")

\* the k-th statement is a field written in a definition of this kind,
\* after well-placed statements
FieldAt(kind, k) ==
  /\ script[k].s = "field"
  /\ WellFormed(SubSeq(script, 1, k - 1))
  /\ Context(SubSeq(script, 1, k - 1)) = kind

\* the k-th statement is such a field, and the definition is closed after it
ClosedFieldAt(kind, k) ==
  /\ k + 1 = Len(script)
  /\ FieldAt(kind, k)
  /\ script[k + 1] = CloseStmt

\* parse_schema has returned a ParseError
ParseFailed == ParseRan /\ ~parseRes.ok /\ ~parseRes.panic /\ parseRes.err.variant = "ParseError"

\* C1: the canonical text of a parsed schema tokenizes, parses and formats
\* to itself
C1_RoundTrip ==
  pc = "reformatted" =>
    /\ canon = FormatSchema(parseRes.schema)
    /\ rt.tok.ok
    /\ rt.parse.ok
    /\ rt.text = canon

\* a package, and a message with a fixed array, a negative id and a
\* deprecated field, have gone round
C1_Witness ==
  /\ pc = "reformatted"
  /\ rt.text = canon
  /\ parseRes.schema.package.some
  /\ \E d \in 1..Len(parseRes.schema.definitions) :
       LET def == parseRes.schema.definitions[d]
       IN /\ def.kind = "Message"
          /\ \E i, j \in 1..Len(def.fields) :
               /\ def.fields[i].is_deprecated /\ def.fields[i].array_size.some
               /\ def.fields[j].field_id < 0 /\ def.fields[j].is_array

\* C2: in a parsed schema the field at 0-based index i of a struct has
\* field_id i + 1 (the field at 1-based position k has field_id k)
C2_StructIdsPositional ==
  ParseOk =>
    \A d \in 1..Len(parseRes.schema.definitions) :
      LET def == parseRes.schema.definitions[d]
      IN def.kind = "Struct" =>
           \A k \in 1..Len(def.fields) : def.fields[k].field_id = (k - 1) + 1

\* a struct with fields parsed after another definition with fields
C2_Witness ==
  /\ ParseOk
  /\ \E d \in 2..Len(parseRes.schema.definitions) :
       /\ parseRes.schema.definitions[d].kind = "Struct"
       /\ parseRes.schema.definitions[d].fields # <<>>
       /\ parseRes.schema.definitions[d - 1].fields # <<>>

\* C3: a struct field followed by [deprecated] fails to parse with a
\* ParseError; a whole schema parses, and each of its message fields is
\* deprecated exactly when the author wrote the marker
C3_DeprecationRestriction ==
  ParseRan =>
    /\ \A k \in 1..Len(script) :
         (FieldAt("Struct", k) /\ script[k].dep
           /\ script[k].type # <<>> /\ ~script[k].id.written) => ParseFailed
    /\ Complete(script) =>
         /\ parseRes.ok
         /\ Len(AllFields(parseRes.schema)) = Len(FieldsWritten)
         /\ \A k \in 1..Len(FieldsWritten) :
              AllFields(parseRes.schema)[k].kind = "Message" =>
                AllFields(parseRes.schema)[k].field.is_deprecated = FieldsWritten[k].dep

\* a struct field with the marker, in a definition that is closed after
\* it, has been refused
C3_Witness ==
  /\ ParseFailed
  /\ \E k \in 1..Len(script) : ClosedFieldAt("Struct", k) /\ script[k].dep
  /\ parseRes.err.msg = "Cannot deprecate this field"

\* C10: a message field written without "= INTEGER" fails to parse; a whole
\* schema parses, and each of its message fields has the field_id the author
\* wrote, whatever the ids are
C10_MessageIds ==
  ParseRan =>
    /\ \A k \in 1..Len(script) :
         (FieldAt("Message", k) /\ script[k].type # <<>> /\ ~script[k].id.written)
           => ParseFailed
    /\ Complete(script) =>
         /\ parseRes.ok
         /\ Len(AllFields(parseRes.schema)) = Len(FieldsWritten)
         /\ \A k \in 1..Len(FieldsWritten) :
              AllFields(parseRes.schema)[k].kind = "Message" =>
                /\ FieldsWritten[k].id.written
                /\ AllFields(parseRes.schema)[k].field.field_id = FieldsWritten[k].id.val

\* a message with the ids 3 and 1, in this order, has been parsed
C10_Witness ==
  /\ ParseOk
  /\ \E d \in 1..Len(parseRes.schema.definitions) :
       LET def == parseRes.schema.definitions[d]
       IN /\ def.kind = "Message"
          /\ Len(def.fields) = 2
          /\ def.fields[1].field_id = 3
          /\ def.fields[2].field_id = 1

\* the 1-based index of the first character c of a text that has one
FirstIndexOf(text, c) ==
  CHOOSE i \in 1..Len(text) :
    text[i] = c /\ \A j \in 1..(i - 1) : text[j] # c

\* the k-th statement is a typed field with "= N", written in a struct
StructFieldWithId(k) ==
  /\ FieldAt("Struct", k)
  /\ script[k].type # <<>>
  /\ script[k].id.written

\* C11: a struct field followed by "= N" fails to parse, with a ParseError
\* at the line and column of its "=" token, wherever the field stands in the
\* struct and wherever the struct stands in the schema; so whenever a schema
\* parses, no struct field was written with an id
C11_StructExplicitId ==
  ParseRan =>
    \A k \in 1..Len(script) :
      StructFieldWithId(k) =>
        /\ ParseFailed
        /\ parseRes.err.found = <<"=">>
        /\ parseRes.err.line = k
        /\ parseRes.err.column = FirstIndexOf(Render(script[k]), "=")

\* the second field of a struct that follows another definition carries
\* "= N", the struct is closed after it, and the parse has failed
C11_Witness ==
  /\ ParseFailed
  /\ \E k \in 4..Len(script) :
       /\ ClosedFieldAt("Struct", k)
       /\ StructFieldWithId(k)
       /\ script[k - 1].s = "field"
  /\ parseRes.err.msg = "Expected \";\""

(***************************************************************************)
(* Properties of compile, checked under Spec                               *)
(***************************************************************************)
\* the stages of compile, in the order of lib.rs 30-33
Pipeline == <<"tokenize", "parse", "verify", "generate">>

\* the result of the last stage that ran
LastStageError ==
  CASE Len(stages) = 1 -> tokRes.err
    [] Len(stages) = 2 -> parseRes.err
    [] Len(stages) = 3 -> VerifySchema(parseRes.schema).err
    [] OTHER -> NoError

\* C7: the stages run in the order tokenize, parse, verify, generate; a
\* stage runs only after every stage before it has succeeded; a failed
\* compile returns the error of the stage that failed, as that stage gave
\* it; code is returned only after tokenizing, parsing and verifying succeeded
C7_FailFast ==
  /\ Len(stages) <= Len(Pipeline)
  /\ stages = SubSeq(Pipeline, 1, Len(stages))
  /\ Len(stages) >= 2 => tokRes.ok
  /\ Len(stages) >= 3 => parseRes.ok
  /\ Len(stages) >= 4 => VerifySchema(parseRes.schema).ok
  /\ pc = "failed" => (error # NoError /\ error = LastStageError)
  /\ pc # "failed" => error = NoError
  /\ pc = "done" => (stages = Pipeline /\ code = CompileSchemaToRust(parseRes.schema))
  /\ pc # "done" => code = NoCode

\* compile has stopped at the verifier: the schema parsed, and no code
\* was generated
C7_Witness ==
  /\ pc = "failed"
  /\ stages = <<"tokenize", "parse", "verify">>
  /\ error.variant = "VerificationError"
  /\ code = NoCode

\* the author's schema names a type that is no builtin scalar and no
\* definition of the schema
UndefinedRef(sc) ==
  \E k \in 1..Len(sc) :
    /\ sc[k].s = "field" /\ sc[k].type # <<>>
    /\ sc[k].type \notin Builtins
    /\ \A j \in 1..Len(sc) : sc[j].s = "open" => sc[j].name # sc[k].type

\* the author's schema names a definition before declaring it
ForwardRef(sc) ==
  \E k \in 1..Len(sc) :
    /\ sc[k].s = "field" /\ sc[k].type # <<>>
    /\ \E j \in (k + 1)..Len(sc) : sc[j].s = "open" /\ sc[j].name = sc[k].type
    /\ \A j \in 1..(k - 1) : sc[j].s = "open" => sc[j].name # sc[k].type

\* C8: a whole schema with an undefined type never passes verification and
\* never reaches code generation: once verification has run, compile has
\* failed with a VerificationError; a schema whose type names are all
\* defined, be it later in the text, does not fail for an undefined type
C8_UndefinedType ==
  Complete(script) =>
    /\ UndefinedRef(script) =>
         /\ pc \notin {"verified", "done"}
         /\ Len(stages) < 4
         /\ code = NoCode
         /\ Len(stages) = 3 => (pc = "failed" /\ error.variant = "VerificationError")
    /\ (~UndefinedRef(script) /\ Len(stages) >= 3) =>
         ~(error.variant = "VerificationError" /\ error.msg = "undefined type")

\* a struct naming a type nobody defines has failed verification
C8_Witness ==
  /\ Complete(script)
  /\ UndefinedRef(script)
  /\ pc = "failed"
  /\ Len(stages) = 3
  /\ error = VerificationError("undefined type")

\* a struct naming an enum declared after it has been compiled
C8_ForwardWitness ==
  /\ Complete(script)
  /\ ForwardRef(script)
  /\ pc = "done"

\* C17: in the code generated for a verified schema, the declaration of
\* every message has one member per field, in field order, deprecated
\* fields included, and every member is wrapped in Option, be it a scalar,
\* a fixed byte array, a variable array or a reference to a definition
C17_MessageMembersOptional ==
  pc = "done" =>
    /\ Len(code.decls) = Len(parseRes.schema.definitions)
    /\ \A d \in 1..Len(parseRes.schema.definitions) :
         LET def == parseRes.schema.definitions[d]
             decl == code.decls[d]
         IN def.kind = "Message" =>
              /\ decl.name = def.name
              /\ Len(decl.members) = Len(def.fields)
              /\ \A i \in 1..Len(def.fields) :
                   /\ decl.members[i].name = def.fields[i].name
                   /\ decl.members[i].optional
                   /\ decl.members[i].deprecated = def.fields[i].is_deprecated

\* code has been generated for a message with a deprecated fixed byte
\* array and a variable array of an enum
C17_Witness ==
  /\ pc = "done"
  /\ \E d \in 1..Len(code.decls) :
       /\ code.decls[d].kind = "Message"
       /\ \E i, j \in 1..Len(code.decls[d].members) :
            /\ code.decls[d].members[i].shape = "fixed"
            /\ code.decls[d].members[i].deprecated
            /\ code.decls[d].members[i].optional
            /\ code.decls[d].members[j].shape = "vec"
            /\ code.decls[d].members[j].elem \in DefinitionNames(parseRes.schema)
            /\ code.decls[d].members[j].optional

\* code has been generated for a message with a scalar field
C17_ScalarWitness ==
  /\ pc = "done"
  /\ \E d \in 1..Len(code.decls) :
       /\ code.decls[d].kind = "Message"
       /\ \E i \in 1..Len(code.decls[d].members) :
            code.decls[d].members[i].shape = "scalar" /\ code.decls[d].members[i].optional

(***************************************************************************)
(* Properties of verification, checked under SpecIds                       *)
(***************************************************************************)
\* verify_schema has been called on the parsed schema
VerifyRan == Len(stages) >= 3

\* two fields of one definition of the schema carry the same field_id
SharedId(def) ==
  \E i, j \in 1..Len(def.fields) :
    i < j /\ def.fields[i].field_id = def.fields[j].field_id

\* an enum or a message of the schema has two fields with the same id
RepeatsId(schema) ==
  \E d \in 1..Len(schema.definitions) :
    /\ schema.definitions[d].kind \in {"Enum", "Message"}
    /\ SharedId(schema.definitions[d])

\* C18: verification fails for every schema in which an enum or a message
\* has two fields with the same field_id; a schema is refused for its ids
\* only then, so the same id in two definitions is no error; and no struct
\* that was parsed has two fields with the same id
C18_FieldIdUniqueness ==
  /\ VerifyRan =>
       /\ RepeatsId(parseRes.schema) =>
            (pc = "failed" /\ error.variant = "VerificationError")
       /\ error = VerificationError("duplicate field id") => RepeatsId(parseRes.schema)
  /\ ParseOk =>
       \A d \in 1..Len(parseRes.schema.definitions) :
         parseRes.schema.definitions[d].kind = "Struct" =>
           ~SharedId(parseRes.schema.definitions[d])

\* verification has refused two differently named fields of a message
\* that share an id
C18_Witness ==
  /\ VerifyRan
  /\ pc = "failed"
  /\ error = VerificationError("duplicate field id")
  /\ \E d \in 1..Len(parseRes.schema.definitions) :
       /\ parseRes.schema.definitions[d].kind = "Message"
       /\ SharedId(parseRes.schema.definitions[d])

\* an enum and a message that both use the id 1, and a struct with two
\* fields, have passed verification
C18_AcrossWitness ==
  /\ pc = "verified"
  /\ \E d, e \in 1..Len(parseRes.schema.definitions) :
       /\ parseRes.schema.definitions[d].kind = "Enum"
       /\ parseRes.schema.definitions[e].kind = "Message"
       /\ \E i \in 1..Len(parseRes.schema.definitions[d].fields) :
            \E j \in 1..Len(parseRes.schema.definitions[e].fields) :
              parseRes.schema.definitions[d].fields[i].field_id
                = parseRes.schema.definitions[e].fields[j].field_id

(***************************************************************************)
(* The grammar of the design document (4.2) as a recogniser over tokens,   *)
(* with its rules per kind of definition.  An integer that is no i32 and   *)
(* an array size that is no usize are no INTEGER of the grammar.           *)
(***************************************************************************)
Reject == [at |-> "reject", kind |-> "none"]
At(at, kind) == [at |-> at, kind |-> kind]

\* the place in the grammar after token text t is read at place at in a
\* definition of this kind
GrammarStep(at, kind, t) ==
  CASE at = "start" /\ IsPackageTok(t) -> At("pkgName", "none")
    [] at \in {"start", "top"} /\ ~(at = "start" /\ IsPackageTok(t)) ->
         IF IsEofTok(t) THEN At("end", "none")
         ELSE IF IsEnumTok(t) THEN At("defName", "Enum")
         ELSE IF IsStructTok(t) THEN At("defName", "Struct")
         ELSE IF IsMessageTok(t) THEN At("defName", "Message")
         ELSE Reject
    [] at = "pkgName" -> IF IsIdentifierTok(t) THEN At("pkgSemi", "none") ELSE Reject
    [] at = "pkgSemi" -> IF IsSemicolonTok(t) THEN At("top", "none") ELSE Reject
    [] at = "defName" -> IF IsIdentifierTok(t) THEN At("defBrace", kind) ELSE Reject
    [] at = "defBrace" -> IF IsLeftBraceTok(t) THEN At("body", kind) ELSE Reject
    [] at = "body" ->
         IF IsRightBraceTok(t) THEN At("top", "none")
         ELSE IF IsIdentifierTok(t)
         THEN At(IF kind = "Enum" THEN "eq" ELSE "afterType", kind)
         ELSE Reject
    [] at = "afterType" ->
         IF IsArrayTok(t) THEN At("name", kind)
         ELSE IF IsFixedArrayTok(t)
         THEN IF ParseUsize(SubSeq(t, 2, Len(t) - 1)).ok THEN At("name", kind) ELSE Reject
         ELSE IF IsIdentifierTok(t)
         THEN At(IF kind = "Struct" THEN "semi" ELSE "eq", kind)
         ELSE Reject
    [] at = "name" ->
         IF IsIdentifierTok(t)
         THEN At(IF kind = "Struct" THEN "semi" ELSE "eq", kind)
         ELSE Reject
    [] at = "eq" -> IF IsEqualsTok(t) THEN At("int", kind) ELSE Reject
    [] at = "int" ->
         IF IsIntegerTok(t) /\ ParseI32(t).ok THEN At("afterInt", kind) ELSE Reject
    [] at = "afterInt" ->
         IF IsSemicolonTok(t) THEN At("body", kind)
         ELSE IF IsDeprecatedTok(t) /\ kind = "Message" THEN At("semi", kind)
         ELSE Reject
    [] at = "semi" -> IF IsSemicolonTok(t) THEN At("body", kind) ELSE Reject
    [] OTHER -> Reject

RECURSIVE FirstViolation(_, _, _, _)
\* the 1-based index of the first token the grammar has no place for, from
\* token i on; 0 if the tokens are a schema
FirstViolation(tokens, i, at, kind) ==
  IF i > Len(tokens) THEN (IF at = "end" THEN 0 ELSE i)
  ELSE LET nxt == GrammarStep(at, kind, tokens[i].text)
           nextAt == nxt.at
           nextKind == nxt.kind
       IN IF nextAt = "reject" THEN i
          ELSE FirstViolation(tokens, i + 1, nextAt, nextKind)

\* the offending token of the tokens of the source
Offending == FirstViolation(tokRes.tokens, 1, "start", "none")

\* C9: parse_schema fails exactly when the grammar is violated, and then
\* with a ParseError whose line and column are those of the first token at
\* which it is violated, the EOF token included; the parser never runs off
\* the tokens
C9_ErrorAtOffendingToken ==
  ParseRan =>
    /\ ~parseRes.panic
    /\ parseRes.ok <=> Offending = 0
    /\ ~parseRes.ok =>
         /\ parseRes.err.variant = "ParseError"
         /\ Offending \in 1..Len(tokRes.tokens)
         /\ parseRes.err.line = tokRes.tokens[Offending].line
         /\ parseRes.err.column = tokRes.tokens[Offending].column

\* the parser has refused the [deprecated] of an enum variant, which is
\* neither the first nor the last token
C9_Witness ==
  /\ ParseFailed
  /\ parseRes.err.msg = "Cannot deprecate this field"
  /\ Offending > 1
  /\ Offending < Len(tokRes.tokens)
  /\ IsDeprecatedTok(tokRes.tokens[Offending].text)
  /\ parseRes.err.line = tokRes.tokens[Offending].line
  /\ parseRes.err.column = tokRes.tokens[Offending].column

(***************************************************************************)
(* Properties of format_schema, checked under SpecFmt                      *)
(***************************************************************************)
\* format_schema has returned
Formatted == pc = "returned" /\ ret.fn = "format_schema"

\* the line "package <name>;"
PackageLine(name) ==
  <<"p", "a", "c", "k", "a", "g", "e", " ">> \o name \o <<";", "\n">>

\* the definitions, each as format_definition writes it, with a blank line
\* between consecutive ones
DefinitionsText(defs) ==
  Concat([i \in 1..Len(defs) |->
            (IF i > 1 THEN <<"\n">> ELSE <<>>) \o FormatDefinition(defs[i])])

\* a text starts with a prefix
StartsWith(text, prefix) ==
  Len(text) >= Len(prefix) /\ SubSeq(text, 1, Len(prefix)) = prefix

\* C12 as stated: with a package, whatever the definitions, the output is
\* the package line, a blank line and the definitions; without a package it
\* starts with the first definition
C12_PackageLineAlwaysBlank ==
  Formatted =>
    LET sch == arg.schema
    IN IF sch.package.some
       THEN ret.val = PackageLine(sch.package.val) \o <<"\n">>
                      \o DefinitionsText(sch.definitions)
       ELSE /\ ret.val = DefinitionsText(sch.definitions)
            /\ sch.definitions # <<>> =>
                 StartsWith(ret.val, Keyword(sch.definitions[1].kind) \o <<" ">>)

\* C12: with a package and at least one definition the output is the
\* package line, a blank line and the definitions; with a package and no
\* definition it is the package line alone; without a package it starts
\* with the first definition
C12_PackageLine ==
  Formatted =>
    LET sch == arg.schema
    IN IF sch.package.some
       THEN IF sch.definitions # <<>>
            THEN ret.val = PackageLine(sch.package.val) \o <<"\n">>
                           \o DefinitionsText(sch.definitions)
            ELSE ret.val = PackageLine(sch.package.val)
       ELSE /\ ret.val = DefinitionsText(sch.definitions)
            /\ sch.definitions # <<>> =>
                 StartsWith(ret.val, Keyword(sch.definitions[1].kind) \o <<" ">>)

\* a schema with a package and two definitions has been formatted
C12_Witness ==
  /\ Formatted
  /\ arg.schema.package.some
  /\ Len(arg.schema.definitions) = 2
  /\ StartsWith(ret.val, PackageLine(arg.schema.package.val) \o <<"\n">>)

RECURSIVE SplitLines(_)
\* the lines of a text, each without the newline that ends it
SplitLines(text) ==
  IF text = <<>> THEN <<>>
  ELSE IF \E i \in 1..Len(text) : text[i] = "\n"
  THEN LET i == FirstIndexOf(text, "\n")
       IN <<SubSeq(text, 1, i - 1)>> \o SplitLines(SubSeq(text, i + 1, Len(text)))
  ELSE <<text>>

LayoutLine(what, d, i) == [what |-> what, d |-> d, i |-> i]

\* the lines of the canonical text of a schema, by what each one is
Layout(schema) ==
  (IF schema.package.some
   THEN <<LayoutLine("package", 0, 0)>>
        \o (IF schema.definitions # <<>> THEN <<LayoutLine("blank", 0, 0)>> ELSE <<>>)
   ELSE <<>>)
  \o Concat([d \in 1..Len(schema.definitions) |->
               (IF d > 1 THEN <<LayoutLine("blank", 0, 0)>> ELSE <<>>)
               \o <<LayoutLine("header", d, 0)>>
               \o [i \in 1..Len(schema.definitions[d].fields) |-> LayoutLine("field", d, i)]
               \o <<LayoutLine("close", d, 0)>>])

\* a word occurs in a line
Contains(line, word) ==
  \E k \in 0..(Len(line) - Len(word)) : SubSeq(line, k + 1, k + Len(word)) = word

\* a line is the line the layout has at its place
LineIs(line, item, schema) ==
  CASE item.what = "package" ->
         line = <<"p", "a", "c", "k", "a", "g", "e", " ">> \o schema.package.val \o <<";">>
    [] item.what = "blank" -> line = <<>>
    [] item.what = "header" ->
         line = Keyword(schema.definitions[item.d].kind) \o <<" ">>
                \o schema.definitions[item.d].name \o <<" ", "{">>
    [] item.what = "close" -> line = <<"}">>
    [] item.what = "field" ->
         /\ Len(line) >= 4
         /\ line[1] = " " /\ line[2] = " " /\ line[3] # " "
         /\ line[Len(line)] = ";"
         /\ Contains(line, schema.definitions[item.d].fields[item.i].name)

\* C13: the output is made of whole lines: after the package part, for each
\* definition in AST order, "<keyword> <name> {", one line indented by two
\* spaces per field in field order, and "}"; one blank line between two
\* definitions, none after the last
C13_DefinitionLayout ==
  Formatted =>
    LET lines == SplitLines(ret.val)
        layout == Layout(arg.schema)
    IN /\ ret.val # <<>> => ret.val[Len(ret.val)] = "\n"
       /\ Len(lines) = Len(layout)
       /\ \A i \in 1..Len(lines) : LineIs(lines[i], layout[i], arg.schema)

\* two definitions of different kinds, the first with two different
\* fields, have been formatted
C13_Witness ==
  /\ Formatted
  /\ Len(arg.schema.definitions) = 2
  /\ arg.schema.definitions[1].kind # arg.schema.definitions[2].kind
  /\ Len(arg.schema.definitions[1].fields) = 2
  /\ arg.schema.definitions[1].fields[1] # arg.schema.definitions[1].fields[2]
  /\ Len(SplitLines(ret.val)) = 7

\* "", "[]" or "[N]" after the type of a field
ArrayText(field) ==
  IF ~field.is_array THEN <<>>
  ELSE IF field.array_size.some
  THEN <<"[">> \o FormatUsize(field.array_size.val) \o <<"]">>
  ELSE <<"[", "]">>

\* "type name", "type[] name" or "type[N] name"
TypedText(field) ==
  field.type_.val \o ArrayText(field) \o <<" ">> \o field.name

\* the line of a field, by the kind of its definition
FieldLine(field, kind) ==
  <<" ", " ">> \o
  (CASE kind = "Enum" ->
          field.name \o <<" ", "=", " ">> \o FormatI32(field.field_id) \o <<";">>
     [] kind = "Struct" -> TypedText(field) \o <<";">>
     [] kind = "Message" ->
          TypedText(field) \o <<" ", "=", " ">> \o FormatI32(field.field_id)
          \o (IF field.is_deprecated THEN <<" ">> \o DeprecatedText ELSE <<>>)
          \o <<";">>)

\* the enum NodeRole { STORAGE = 1; VALIDATOR = 2; } as written and as parsed
NodeRoleText ==
  <<"e", "n", "u", "m", " ">> \o W_NodeRole \o <<" ", "{", " ">>
  \o W_STORAGE \o <<" ", "=", " ", "1", ";", " ">>
  \o W_VALIDATOR \o <<" ", "=", " ", "2", ";", " ", "}">>

NodeRoleParsed == ParseSchema(TokenizeSchema(NodeRoleText).tokens)

\* the four lines NodeRole formats to
NodeRoleLines ==
  << <<"e", "n", "u", "m", " ">> \o W_NodeRole \o <<" ", "{">>,
     <<" ", " ">> \o W_STORAGE \o <<" ", "=", " ", "1", ";">>,
     <<" ", " ">> \o W_VALIDATOR \o <<" ", "=", " ", "2", ";">>,
     <<"}">> >>

\* a schema without the source positions of its definitions and fields
Unplaced(schema) ==
  Schema(schema.package,
         [d \in 1..Len(schema.definitions) |->
            [schema.definitions[d] EXCEPT
               !.line = 1, !.column = 1,
               !.fields = [i \in 1..Len(@) |-> [@[i] EXCEPT !.line = 1, !.column = 1]]]])

\* the schema is the enum NodeRole with STORAGE = 1 and VALIDATOR = 2
IsNodeRole(schema) ==
  /\ ~schema.package.some
  /\ Len(schema.definitions) = 1
  /\ schema.definitions[1].kind = "Enum"
  /\ schema.definitions[1].name = W_NodeRole
  /\ Len(schema.definitions[1].fields) = 2
  /\ schema.definitions[1].fields[1].name = W_STORAGE
  /\ schema.definitions[1].fields[1].field_id = 1
  /\ schema.definitions[1].fields[2].name = W_VALIDATOR
  /\ schema.definitions[1].fields[2].field_id = 2

\* C14: the line of every field is, after two spaces, "NAME = value;" in an
\* enum, the typed form and ";" in a struct, with no id and no marker even
\* when the field is deprecated, and in a message the typed form, " = id",
\* " [deprecated]" exactly when is_deprecated, and ";"; the enum NodeRole
\* formats to its four lines
C14_FieldRendering ==
  Formatted =>
    LET lines == SplitLines(ret.val)
        layout == Layout(arg.schema)
    IN /\ Len(lines) = Len(layout)
       /\ \A i \in 1..Len(lines) :
            layout[i].what = "field" =>
              LET def == arg.schema.definitions[layout[i].d]
                  field == def.fields[layout[i].i]
              IN /\ lines[i] = FieldLine(field, def.kind)
                 /\ def.kind = "Struct" =>
                      /\ ~Contains(lines[i], <<"=">>)
                      /\ ~Contains(lines[i], DeprecatedText)
                 /\ def.kind = "Message" =>
                      (Contains(lines[i], <<" ">> \o DeprecatedText \o <<";">>)
                         <=> field.is_deprecated)
       /\ IsNodeRole(arg.schema) => lines = NodeRoleLines

\* the parsed enum NodeRole has been formatted to its four lines
C14_Witness ==
  /\ Formatted
  /\ IsNodeRole(arg.schema)
  /\ SplitLines(ret.val) = NodeRoleLines
  /\ NodeRoleParsed.ok
  /\ Unplaced(NodeRoleParsed.schema) = arg.schema

\* a struct with a deprecated field and a message with a deprecated and a
\* live field have been formatted
C14_DeprecatedWitness ==
  /\ Formatted
  /\ Len(arg.schema.definitions) = 2
  /\ arg.schema.definitions[1].kind = "Struct"
  /\ arg.schema.definitions[2].kind = "Message"
  /\ \E i \in 1..Len(arg.schema.definitions[1].fields) :
       arg.schema.definitions[1].fields[i].is_deprecated
  /\ \E i, j \in 1..Len(arg.schema.definitions[2].fields) :
       /\ arg.schema.definitions[2].fields[i].is_deprecated
       /\ ~arg.schema.definitions[2].fields[j].is_deprecated

(***************************************************************************)
(* Properties of is_fixed_byte_array and escape_rust_keyword, checked      *)
(* under SpecUtil                                                          *)
(***************************************************************************)
FixedReturned == pc = "returned" /\ ret.fn = "is_fixed_byte_array"

\* C16: is_fixed_byte_array is true exactly when array_size is present and
\* type_ is "byte"; it is false when the type is absent or another name,
\* and for a variable array or a scalar of bytes; fields that differ only
\* in is_array, is_deprecated and field_id get the same answer
C16_FixedByteArray ==
  FixedReturned =>
    LET f == arg.field
    IN /\ ret.val <=> (f.array_size.some /\ f.type_.some /\ f.type_.val = W_byte)
       /\ ~f.type_.some => ~ret.val
       /\ (f.type_.some /\ f.type_.val # W_byte) => ~ret.val
       /\ ~f.array_size.some => ~ret.val
       /\ \A g \in FieldArgs :
            (g.type_ = f.type_ /\ g.array_size = f.array_size) =>
              IsFixedByteArray(g) = ret.val

\* the answer for byte[32] with the array flag off was true
C16_Witness ==
  /\ FixedReturned
  /\ ret.val
  /\ ~arg.field.is_array
  /\ arg.field.array_size = Some(<<"3", "2">>)

\* the answer for byte[] (a variable array) was false
C16_VariableWitness ==
  /\ FixedReturned
  /\ ~ret.val
  /\ arg.field.is_array
  /\ ~arg.field.array_size.some
  /\ arg.field.type_ = Some(W_byte)

EscapeReturned == pc = "returned" /\ ret.fn = "escape_rust_keyword"

\* C19: the result is the input with one "_" appended when the input is a
\* keyword of the list and the input itself otherwise, and it is never a
\* keyword of the list
C19_KeywordEscaping ==
  EscapeReturned =>
    /\ arg.s \in Keywords =>
         /\ Len(ret.val) = Len(arg.s) + 1
         /\ SubSeq(ret.val, 1, Len(arg.s)) = arg.s
         /\ ret.val[Len(ret.val)] = "_"
    /\ arg.s \notin Keywords => ret.val = arg.s
    /\ ret.val \notin Keywords

\* the keyword "type" has been escaped to "type_"
C19_Witness ==
  /\ EscapeReturned
  /\ arg.s = <<"t", "y", "p", "e">>
  /\ ret.val = <<"t", "y", "p", "e", "_">>

\* "name", no keyword, has come back unchanged
C19_NameWitness ==
  /\ EscapeReturned
  /\ arg.s = <<"n", "a", "m", "e">>
  /\ ret.val = arg.s

(***************************************************************************)
(* Properties of the commands, checked under SpecCli                       *)
(***************************************************************************)
\* a stage of the command has returned an error
StageFailed ==
  \/ (Len(stages) >= 1 /\ ~tokRes.ok)
  \/ (Len(stages) >= 2 /\ ~parseRes.ok)
  \/ (Len(stages) >= 3 /\ ~VerifySchema(parseRes.schema).ok)

\* C20: gen-rust writes the output file, or prints the code when no output
\* path is given, only after the four stages of compile have succeeded, and
\* then it is the generated code; once tokenizing, parsing or verifying has
\* failed nothing is written or printed, and the command ends with exit
\* status 1; validate never generates code
C20_AllOrNothing ==
  cli.command # "none" =>
    /\ (cli.written \/ cli.printed) =>
         /\ cli.command = "gen-rust"
         /\ stages = Pipeline
         /\ tokRes.ok /\ parseRes.ok /\ VerifySchema(parseRes.schema).ok
         /\ code = CompileSchemaToRust(parseRes.schema)
         /\ cli.written => (cli.output /\ cli.file = code /\ ~cli.printed)
         /\ cli.printed => (~cli.output /\ cli.stdout = code /\ ~cli.written)
    /\ StageFailed =>
         /\ ~cli.written /\ ~cli.printed
         /\ cli.file = NoCode /\ cli.stdout = NoCode
         /\ code = NoCode
         /\ pc \in {"failed", "exited"}
         /\ pc = "exited" => cli.exit = "1"
         /\ pc = "failed" => cli.exit = "running"
    /\ cli.command = "validate" =>
         /\ Len(stages) <= 3
         /\ code = NoCode
         /\ ~cli.written /\ ~cli.printed

\* gen-rust with an output path has ended with status 1 on a schema that
\* failed verification, and nothing was written
C20_Witness ==
  /\ cli.command = "gen-rust" /\ cli.output
  /\ pc = "exited"
  /\ cli.exit = "1"
  /\ stages = <<"tokenize", "parse", "verify">>
  /\ error.variant = "VerificationError"
  /\ ~cli.written

\* gen-rust has written the code of a schema with a definition
C20_WrittenWitness ==
  /\ cli.written
  /\ cli.exit = "0"
  /\ cli.file.decls # <<>>

\* validate has accepted a schema
C20_ValidateWitness ==
  /\ cli.command = "validate"
  /\ pc = "exited"
  /\ cli.exit = "0"
  /\ parseRes.schema.definitions # <<>>

(***************************************************************************)
(* Properties of the loops of parse_schema, checked under SpecParse        *)
(***************************************************************************)
\* parse_schema has been called and has not returned
InParser == pc \in {"parsing", "returning"}

\* the step is an iteration of the definition loop or of the field loop:
\* the test of the loop let the body run
LoopIterates ==
  /\ pc = "parsing"
  /\ ret' # ret
  /\ \/ ret.at = "definitions" /\ ret'.at # "end"
     \/ ret.at = "fields" /\ ret'.at = "fields"

\* the step ends the definition loop
LoopEnds == pc = "parsing" /\ ret' # ret /\ ret'.at = "end"

\* C21: parse_schema, called on the tokens of tokenize_schema, returns a
\* Schema or a ParseError and never panics; every iteration of the
\* definition loop and of the field loop consumes at least one token or
\* returns an error; the index never passes the EOF token while a loop
\* runs, the EOF token is consumed by the test of the definition loop and
\* by nothing else, and the definition loop ends by consuming it; while
\* parse_schema runs it has a next step, and every step before the return
\* moves the index forward, so it returns after at most as many steps as
\* there are tokens
C21_ParserTerminates ==
  /\ [](InParser =>
          /\ ret.ps.status # "panic"
          /\ ret.ps.index <= Len(arg.tokens)
          /\ pc = "parsing" => ret.ps.index < Len(arg.tokens)
          /\ ret.ps.index = Len(arg.tokens) => (ret.at = "end" /\ ret.ps.status = "ok")
          /\ pc = "parsing" => ret.at \in {"definitions", "fields"})
  /\ [](ParseRan =>
          /\ ~parseRes.panic
          /\ parseRes.ok \/ parseRes.err.variant = "ParseError"
          /\ parseRes = ParseSchema(tokRes.tokens))
  /\ [][LoopIterates =>
          (ret'.ps.status = "err" \/ ret'.ps.index > ret.ps.index)]_vars
  /\ [][LoopEnds =>
          /\ ret.at = "definitions"
          /\ IsEofTok(CurrentToken(arg.tokens, ret.ps.index).text)
          /\ ret'.ps.index = ret.ps.index + 1
          /\ ret'.ps.index = Len(arg.tokens)]_vars
  /\ [][pc = "parsing" =>
          (pc' = "returning" \/ ret'.ps.index > ret.ps.index)]_vars

\* a schema file that stops inside the second field of a struct, after the
\* name of the field: parse_schema read one field, met the EOF token where
\* the semicolon should be, and returned a ParseError at it
C21_Witness ==
  /\ pc = "failed"
  /\ ParseFailed
  /\ script[Len(script)] = RawStmt(<<"b", "y", "t", "e", " ", "x">>)
  /\ ret.at = "fields"
  /\ ret.kind = "Struct"
  /\ Len(ret.fields) = 1
  /\ ret.ps.index = Len(arg.tokens) - 1
  /\ parseRes.err.found = <<>>
  /\ parseRes.err.msg = "Expected \";\""

\* a schema file that stops inside a definition, after a field
C21_OpenWitness ==
  /\ pc = "failed"
  /\ ParseFailed
  /\ script[Len(script)].s = "field"
  /\ WellFormed(script)
  /\ ret.at = "fields"
  /\ ret.definitions # <<>>
  /\ parseRes.err.found = <<>>

\* a whole schema file with a package and two definitions: the definition
\* loop has ended by consuming the EOF token
C21_WholeWitness ==
  /\ pc = "parsed"
  /\ ret.at = "end"
  /\ ret.ps.index = Len(arg.tokens)
  /\ parseRes.schema.package.some
  /\ Len(parseRes.schema.definitions) = 2
  /\ parseRes.schema.definitions[2].fields # <<>>

C22_StructWitness ==
  /\ ParseOk
  /\ \E i \in 1..Len(AllFields(parseRes.schema)) :
       /\ AllFields(parseRes.schema)[i].kind = "Struct"
       /\ AllFields(parseRes.schema)[i].field.is_array
       /\ ~AllFields(parseRes.schema)[i].field.array_size.some
       /\ AllFields(parseRes.schema)[i].field.type_.some

(***************************************************************************)
(* Properties of the schema files at the edges of the language, checked    *)
(* under SpecEdge                                                          *)
(***************************************************************************)
\* C23: the text format_schema writes for a schema that parse_schema
\* returned is tokenized and parsed without error, and the schema read back
\* has the same package and the same definitions in the same order, each
\* with the same name, kind and fields, each field with the same name,
\* type_, is_array, array_size, is_deprecated and field_id; only line and
\* column may differ
C23_AstRoundTrip ==
  pc = "reformatted" =>
    /\ parseRes.ok
    /\ canon = FormatSchema(parseRes.schema)
    /\ rt.tok.ok
    /\ rt.parse.ok
    /\ Unplaced(rt.parse.schema) = Unplaced(parseRes.schema)

\* a schema whose package is named enum, with a message named message
\* that has a deprecated fixed array named deprecated, written with the id
\* 007, has been formatted and read back
C23_Witness ==
  /\ pc = "reformatted"
  /\ rt.parse.ok
  /\ parseRes.schema.package = Some(W_enum)
  /\ \E d \in 1..Len(parseRes.schema.definitions) :
       LET def == parseRes.schema.definitions[d]
       IN /\ def.kind = "Message"
          /\ def.name = W_message
          /\ \E i \in 1..Len(def.fields) :
               /\ def.fields[i].name = W_deprecated
               /\ def.fields[i].is_deprecated
               /\ def.fields[i].array_size = Some(<<"3">>)
               /\ def.fields[i].field_id = 7
               /\ rt.parse.schema.definitions[d].fields[i].array_size = Some(<<"3">>)
               /\ rt.parse.schema.definitions[d].fields[i].column
                    # def.fields[i].column

\* an enum with the smallest and the largest i32 has been formatted and
\* read back
C23_LimitsWitness ==
  /\ pc = "reformatted"
  /\ rt.parse.ok
  /\ \E i, j \in 1..Len(AllFields(rt.parse.schema)) :
       /\ AllFields(rt.parse.schema)[i].field.field_id = MinI32
       /\ AllFields(rt.parse.schema)[j].field.field_id = MaxI32

\* a struct with an array of the largest usize and with a field named
\* enum has been formatted and read back
C23_SizeWitness ==
  /\ pc = "reformatted"
  /\ rt.parse.ok
  /\ \E i, j \in 1..Len(AllFields(rt.parse.schema)) :
       /\ AllFields(rt.parse.schema)[i].field.array_size = Some(UsizeMaxDigits)
       /\ AllFields(rt.parse.schema)[j].field.name = W_enum

(***************************************************************************)
(* The order of lexical and syntactic errors, checked under SpecPrec       *)
(***************************************************************************)
\* the author wrote a statement with a character of no token
Unrecognised == \E k \in 1..Len(script) : script[k] \in BadStmts

\* the first such statement, one statement being one line
FirstBad == CHOOSE k \in 1..Len(script) :
              script[k] \in BadStmts /\ \A j \in 1..(k - 1) : script[j] \notin BadStmts

\* the source text before the first character of no token
Recognised == SubSeq(source, 1, FirstGap)

C24_CommentWitness ==
  /\ pc = "done"
  /\ \E k \in 1..Len(script) : script[k] = RawStmt(<<"/", "/", " ", "@">>)

(***************************************************************************)
(* The deprecation marker outside messages, checked under Spec             *)
(***************************************************************************)
\* the k-th statement is a field of a definition of this kind, written as
\* the kind asks but for the marker [deprecated] that follows it
MarkedFieldAt(kind, k) ==
  /\ FieldAt(kind, k)
  /\ script[k].dep
  /\ kind = "Enum" => (script[k].type = <<>> /\ script[k].id.written /\ script[k].id.fits)
  /\ kind = "Struct" => (script[k].type # <<>> /\ ~script[k].id.written)

\* the column of the marker in the line of a field that has one
MarkerColumn(st) == (Len(Render(st)) - 2 - Len(DeprecatedText)) + 1

\* C25: an enum variant followed by [deprecated] fails to parse, as a
\* struct field followed by it does: parse_schema returns the ParseError
\* "Cannot deprecate this field" at the line and column of the
\* [deprecated] token, not of the token after it, and returns no schema, so
\* no definition and no field
C25_EnumDeprecation ==
  ParseRan =>
    \A k \in 1..Len(script) :
      (MarkedFieldAt("Enum", k) \/ MarkedFieldAt("Struct", k)) =>
        /\ ParseFailed
        /\ pc = "failed"
        /\ error = parseRes.err
        /\ parseRes.err.msg = "Cannot deprecate this field"
        /\ parseRes.err.line = k
        /\ parseRes.err.column = MarkerColumn(script[k])
        /\ parseRes.err.column # Len(Render(script[k])) - 1
        /\ SubSeq(Render(script[k]), MarkerColumn(script[k]),
                  MarkerColumn(script[k]) + Len(DeprecatedText) - 1) = DeprecatedText
        /\ parseRes.schema = EmptySchema

\* the second variant of an enum that follows another definition carries
\* the marker, the enum is closed after it, and the parse has failed at
\* the marker
C25_Witness ==
  /\ ParseFailed
  /\ \E k \in 5..Len(script) :
       /\ ClosedFieldAt("Enum", k)
       /\ MarkedFieldAt("Enum", k)
       /\ script[k - 1].s = "field"
       /\ parseRes.err.line = k
       /\ parseRes.err.column = MarkerColumn(script[k])
  /\ parseRes.err.msg = "Cannot deprecate this field"

(***************************************************************************)
(* The range of ids, enum values and array sizes, checked under SpecEdge   *)
(***************************************************************************)
\* the k-th statement is an enum variant or a message field, written as
\* its definition asks, with an integer literal
ValuedFieldAt(k) ==
  /\ script[k].id.written
  /\ script[k].arr # "over"
  /\ \/ FieldAt("Enum", k) /\ script[k].type = <<>> /\ ~script[k].dep
     \/ FieldAt("Message", k) /\ script[k].type # <<>>

\* the k-th statement is a field of a struct or of a message with an
\* array size that is no usize
OversizedFieldAt(k) ==
  /\ script[k].type # <<>>
  /\ script[k].arr = "over"
  /\ FieldAt("Struct", k) \/ FieldAt("Message", k)

\* C26: an enum value or message field id written with a literal of the
\* i32 range, negative, signed zero or zero-padded, is the field_id of
\* the parsed field; a literal beyond the range makes parse_schema fail
\* with the ParseError "Invalid integer", naming the literal, at the line
\* and column of the literal, so no value is wrapped or truncated; an
\* array size beyond the usize range makes it fail with "Invalid array
\* size" at the array token, and the largest usize is kept as it is
C26_IntegerRange ==
  ParseRan =>
    /\ \A k \in 1..Len(script) :
         (ValuedFieldAt(k) /\ ~script[k].id.fits) =>
           /\ ParseFailed
           /\ parseRes.err.msg = "Invalid integer"
           /\ parseRes.err.found = script[k].id.text
           /\ parseRes.err.line = k
           /\ parseRes.err.column = FirstIndexOf(Render(script[k]), "=") + 1
    /\ \A k \in 1..Len(script) :
         OversizedFieldAt(k) =>
           /\ ParseFailed
           /\ parseRes.err.msg = "Invalid array size"
           /\ parseRes.err.found = UsizeOverDigits
           /\ parseRes.err.line = k
           /\ parseRes.err.column = FirstIndexOf(Render(script[k]), "[")
    /\ Complete(script) =>
         /\ parseRes.ok
         /\ Len(AllFields(parseRes.schema)) = Len(FieldsWritten)
         /\ \A k \in 1..Len(FieldsWritten) :
              LET parsed == AllFields(parseRes.schema)[k]
                  written == FieldsWritten[k]
              IN /\ parsed.kind # "Struct" =>
                      /\ written.id.fits
                      /\ parsed.field.field_id = written.id.val
                      /\ parsed.field.field_id \in MinI32..MaxI32
                 /\ written.arr = "max" =>
                      parsed.field.array_size = Some(UsizeMaxDigits)
                 /\ written.arr = "fixed" =>
                      parsed.field.array_size = Some(<<"3">>)
    /\ parseRes.ok =>
         \A k \in 1..Len(script) :
           script[k].s = "field" => (script[k].id.written => script[k].id.fits)

\* an enum whose second variant is 2147483648 has been refused at that
\* literal, after a variant with the largest i32 was read
C26_Witness ==
  /\ ParseFailed
  /\ parseRes.err.msg = "Invalid integer"
  /\ parseRes.err.found = IdTooBig.text
  /\ \E k \in 3..Len(script) :
       /\ ValuedFieldAt(k)
       /\ FieldAt("Enum", k)
       /\ script[k].id = IdTooBig
       /\ script[k - 1].id.val = MaxI32
       /\ parseRes.err.line = k

\* a message field with the id 4294967297 has been refused
C26_WrapWitness ==
  /\ ParseFailed
  /\ parseRes.err.msg = "Invalid integer"
  /\ parseRes.err.found = WrapsToOneText
  /\ \E k \in 1..Len(script) : ValuedFieldAt(k) /\ FieldAt("Message", k)
                                 /\ script[k].id.text = WrapsToOneText

\* an enum variant below the smallest i32 has been refused
C26_BelowWitness ==
  /\ ParseFailed
  /\ parseRes.err.msg = "Invalid integer"
  /\ parseRes.err.found = BelowMinI32Text

\* an enum with the smallest and the largest i32 has been parsed
C26_LimitsWitness ==
  /\ ParseOk
  /\ Complete(script)
  /\ \E i, j \in 1..Len(AllFields(parseRes.schema)) :
       /\ AllFields(parseRes.schema)[i].field.field_id = MinI32
       /\ AllFields(parseRes.schema)[j].field.field_id = MaxI32

\* an array size of 18446744073709551616 has been refused
C26_SizeWitness ==
  /\ ParseFailed
  /\ parseRes.err.msg = "Invalid array size"
  /\ \E k \in 1..Len(script) : OversizedFieldAt(k)

====
